---- MODULE Spec2Model ----
(***************************************************************************)
(* A model of tap-zohobooks' incremental extraction engine:                *)
(*   client.py  ZohoBooksPaginator, ZohoBooksStream                         *)
(*   streams.py the stream classes built on ZohoBooksStream                 *)
(*                                                                         *)
(* Python values are represented as follows.                               *)
(*   str   a sequence of one-character strings, <<"2","0","2","3">>        *)
(*   None  the empty sequence <<>>; the modelled code only ever tests      *)
(*         these values for truthiness, where None and "" agree            *)
(*   Optional[int]  <<>> for None, <<n>> for the integer n                 *)
(*   dict  a function whose DOMAIN is the set of keys present              *)
(***************************************************************************)
EXTENDS Integers, Sequences, FiniteSets, TLC

VARIABLES
    name,            \* ZohoBooksStream.name of the stream instance
    config,          \* self.config (start_date, reports_start_date)
    bookmark,        \* get_starting_replication_key_value(context)
    today,           \* datetime.now(), as read by get_url_params
    context,         \* the parent context of the invocation
    cpc,             \* cursor resolver: "start" | "resolved" | "error"
    url_params,      \* the params dict: what get_url_params returned, or what
                     \* _prepare_details_request is called with
    resolved,        \* cursor resolver: start_date after lines 161-165
    server,          \* the provider: [npages, nrecs], the pages it holds
    pc,              \* the Stream Executor's position in request_records
    paginator,       \* ZohoBooksPaginator: [value, finished]
    prepared,        \* the query of the prepared request, <<>> before the first
    tries,           \* calls of _request made for the prepared request
    quota_tries,     \* those of them whose response was quota-exhausted
    response,        \* the last response received, <<>> before the first
    verdict,         \* what validate_response did with it
    slept,           \* the sleeps taken while handling it, in order
    rate_limit_alert,\* ZohoBooksStream.rate_limit_alert
    rec_i,           \* records of the current page already emitted
    emitted,         \* every record emitted by the invocation, in order
    sent,            \* the query of every request sent, in order
    failure,         \* the exception that ended the run, "" while there is none
    ids,             \* _divide_chunks: the list it is called with
    batches,         \* _divide_chunks: <<>> before the call, <<the chunks it yields>> after
    selected,        \* the names of the streams the catalog selects
    stack,           \* the invocations of Stream.sync in progress, the running one last
    inflight,        \* HTTP requests sent and not yet answered
    log,             \* what the run did so far: requests, responses, records, returns
    waited,          \* the waits of the backoff decorator for the prepared request, in order
    alert_of,        \* rate_limit_alert of each stream instance of the tap, by stream name
    api_url          \* url_base: <<>> before the property is read, <<the URL>> after

cursorVars == <<cpc, url_params, resolved>>
inputVars == <<name, config, bookmark, today, context>>
execVars ==
    <<server, pc, paginator, prepared, tries, quota_tries, response, verdict, slept,
      rate_limit_alert, rec_i, emitted, sent, failure>>
chunkVars == <<ids, batches>>
treeVars == <<selected, stack, inflight, log>>
restVars == <<waited, alert_of, api_url>>
vars == <<inputVars, cursorVars, execVars, chunkVars, treeVars, restVars>>

----------------------------------------------------------------------------
(* Strings *)

None == <<>>

Truthy(v) == v # None

Digit == <<"0", "1", "2", "3", "4", "5", "6", "7", "8", "9">>

IsDigit(c) == \E d \in 1..10 : Digit[d] = c

DigitVal(c) == (CHOOSE d \in 1..10 : Digit[d] = c) - 1

\* The decimal rendering of n, zero-padded to width w (strftime / isoformat fields).
Pad(n, w) == [i \in 1..w |-> Digit[((n \div (10 ^ (w - i))) % 10) + 1]]

\* The number written by the digits s[i..i+w-1].
RECURSIVE NumAt(_, _, _)
NumAt(s, i, w) ==
    IF w = 0 THEN 0 ELSE NumAt(s, i, w - 1) * 10 + DigitVal(s[i + w - 1])

DigitsAt(s, i, w) == i + w - 1 <= Len(s) /\ \A k \in i..(i + w - 1) : IsDigit(s[k])

\* str.split(sep) for a one-character separator: the pieces between the
\* positions of sep.
Split(s, sep) ==
    LET cuts == SelectSeq([k \in 1..Len(s) |-> k], LAMBDA k : s[k] = sep)
        n == Len(cuts)
    IN  [i \in 1..(n + 1) |->
            SubSeq(s, IF i = 1 THEN 1 ELSE cuts[i - 1] + 1,
                      IF i = n + 1 THEN Len(s) ELSE cuts[i] - 1)]

\* sep.join(parts), by halves.
RECURSIVE Join(_, _)
Join(parts, sep) ==
    IF Len(parts) = 0 THEN <<>>
    ELSE IF Len(parts) = 1 THEN parts[1]
    ELSE LET h == Len(parts) \div 2
         IN  Join(SubSeq(parts, 1, h), sep) \o <<sep>>
             \o Join(SubSeq(parts, h + 1, Len(parts)), sep)

----------------------------------------------------------------------------
(* datetime: [year, month, day, hour, minute, second, microsecond, tz];     *)
(* tz is <<>> for a naive datetime and <<m>> for a UTC offset of m minutes. *)

IsLeap(y) == (y % 4 = 0 /\ y % 100 # 0) \/ y % 400 = 0

DaysInMonth(y, m) ==
    IF m = 2 THEN (IF IsLeap(y) THEN 29 ELSE 28)
    ELSE IF m \in {4, 6, 9, 11} THEN 30 ELSE 31

\* calendar.monthrange(year, month)[1]
monthrange(y, m) == DaysInMonth(y, m)

EmptyDate ==
    [year |-> 1900, month |-> 1, day |-> 1, hour |-> 0, minute |-> 0,
     second |-> 0, microsecond |-> 0, tz |-> <<>>]

ValidDate(dt) ==
    /\ dt.year \in 1..9999
    /\ dt.month \in 1..12
    /\ dt.day \in 1..DaysInMonth(dt.year, dt.month)
    /\ dt.hour \in 0..23
    /\ dt.minute \in 0..59
    /\ dt.second \in 0..59

\* A numeric strptime field of one or two digits, as the directive's regex takes
\* it: two digits when they are there, else one.
FieldWidth(s, i) == IF DigitsAt(s, i, 2) THEN 2 ELSE IF DigitsAt(s, i, 1) THEN 1 ELSE 0

\* The width of the %f field at i: one to six digits, as many as are there.
RECURSIVE FracWidth(_, _, _)
FracWidth(s, i, w) ==
    IF w < 6 /\ DigitsAt(s, i + w, 1) THEN FracWidth(s, i, w + 1) ELSE w

\* %z at i: "Z", or a sign, two digits, an optional colon and two digits.
\* <<>> when there is none, else <<offset in minutes, characters taken>>.
ZoneAt(s, i) ==
    IF i <= Len(s) /\ s[i] = "Z" THEN <<0, 1>>
    ELSE IF i <= Len(s) /\ s[i] \in {"+", "-"} /\ DigitsAt(s, i + 1, 2)
    THEN LET sign == IF s[i] = "-" THEN -1 ELSE 1
             hh == NumAt(s, i + 1, 2)
             j == IF i + 3 <= Len(s) /\ s[i + 3] = ":" THEN i + 4 ELSE i + 3
         IN  IF DigitsAt(s, j, 2) /\ NumAt(s, j, 2) <= 59
             THEN <<sign * (hh * 60 + NumAt(s, j, 2)), j + 2 - i>>
             ELSE <<>>
    ELSE <<>>

\* datetime.strptime(s, fmt) from position i of s and directive j of fmt:
\* <<>> for ValueError, else <<datetime>>.
RECURSIVE StrptimeFrom(_, _, _, _, _)
StrptimeFrom(s, i, fmt, j, acc) ==
    IF j > Len(fmt)
    THEN IF i > Len(s) /\ ValidDate(acc) THEN <<acc>> ELSE <<>>
    ELSE LET d == fmt[j] IN
         IF d = "%Y" THEN
            IF DigitsAt(s, i, 4)
            THEN StrptimeFrom(s, i + 4, fmt, j + 1, [acc EXCEPT !.year = NumAt(s, i, 4)])
            ELSE <<>>
         ELSE IF d \in {"%m", "%d", "%H", "%M", "%S"} THEN
            LET w == FieldWidth(s, i)
                v == NumAt(s, i, w)
            IN  IF w = 0 THEN <<>>
                ELSE StrptimeFrom(s, i + w, fmt, j + 1,
                        CASE d = "%m" -> [acc EXCEPT !.month = v]
                          [] d = "%d" -> [acc EXCEPT !.day = v]
                          [] d = "%H" -> [acc EXCEPT !.hour = v]
                          [] d = "%M" -> [acc EXCEPT !.minute = v]
                          [] d = "%S" -> [acc EXCEPT !.second = v])
         ELSE IF d = "%f" THEN
            LET w == FracWidth(s, i, 0)
            IN  IF w = 0 THEN <<>>
                ELSE StrptimeFrom(s, i + w, fmt, j + 1,
                        [acc EXCEPT !.microsecond = NumAt(s, i, w) * (10 ^ (6 - w))])
         ELSE IF d = "%z" THEN
            LET z == ZoneAt(s, i)
            IN  IF z = <<>> THEN <<>>
                ELSE StrptimeFrom(s, i + z[2], fmt, j + 1, [acc EXCEPT !.tz = <<z[1]>>])
         ELSE IF i <= Len(s) /\ s[i] = d
              THEN StrptimeFrom(s, i + 1, fmt, j + 1, acc)
              ELSE <<>>

strptime(s, fmt) == StrptimeFrom(s, 1, fmt, 1, EmptyDate)

\* The layouts of _infer_date, in the order the code tries them.
date_formats ==
    << <<"%Y", "-", "%m", "-", "%d", "T", "%H", ":", "%M", ":", "%S", ".", "%f", "%z">>,
       <<"%Y", "-", "%m", "-", "%d", "T", "%H", ":", "%M", ":", "%S", ".", "%f">>,
       <<"%Y", "-", "%m", "-", "%d", "T", "%H", ":", "%M", ":", "%S", "%z">>,
       <<"%Y", "-", "%m", "-", "%d", "T", "%H", ":", "%M", ":", "%S">>,
       <<"%Y", "-", "%m", "-", "%d", "T", "%H", ":", "%M", "%z">>,
       <<"%Y", "-", "%m", "-", "%d">> >>

\* _infer_date(date): the first layout that parses; <<>> when none does
\* (ValueError, or the TypeError strptime raises for None).
RECURSIVE InferFrom(_, _)
InferFrom(date, k) ==
    IF k > Len(date_formats) THEN <<>>
    ELSE IF strptime(date, date_formats[k]) # <<>> THEN strptime(date, date_formats[k])
    ELSE InferFrom(date, k + 1)

_infer_date(date) == InferFrom(date, 1)

\* An addition that wraps the seconds without carrying into the minute.
AddOneSecondNoCarry(dt) == [dt EXCEPT !.second = (dt.second + 1) % 60]

\* start_date + timedelta(seconds=1)
AddOneSecond(dt) ==
    IF dt.second < 59 THEN [dt EXCEPT !.second = dt.second + 1]
    ELSE IF dt.minute < 59 THEN [dt EXCEPT !.second = 0, !.minute = dt.minute + 1]
    ELSE IF dt.hour < 23 THEN [dt EXCEPT !.second = 0, !.minute = 0, !.hour = dt.hour + 1]
    ELSE IF dt.day < DaysInMonth(dt.year, dt.month)
         THEN [dt EXCEPT !.second = 0, !.minute = 0, !.hour = 0, !.day = dt.day + 1]
    ELSE IF dt.month < 12
         THEN [dt EXCEPT !.second = 0, !.minute = 0, !.hour = 0, !.day = 1,
                         !.month = dt.month + 1]
    ELSE [dt EXCEPT !.second = 0, !.minute = 0, !.hour = 0, !.day = 1, !.month = 1,
                    !.year = dt.year + 1]

\* if start_date.microsecond > 0: start_date = start_date.replace(microsecond=0)
TruncateMicros(dt) == IF dt.microsecond > 0 THEN [dt EXCEPT !.microsecond = 0] ELSE dt

\* The "+HH:MM" that isoformat() appends for an aware datetime.
IsoOffset(tz) ==
    IF tz = <<>> THEN <<>>
    ELSE LET m == IF tz[1] < 0 THEN -tz[1] ELSE tz[1]
         IN  <<IF tz[1] < 0 THEN "-" ELSE "+">> \o Pad(m \div 60, 2) \o <<":">>
             \o Pad(m % 60, 2)

\* datetime.isoformat()
isoformat(dt) ==
    Pad(dt.year, 4) \o <<"-">> \o Pad(dt.month, 2) \o <<"-">> \o Pad(dt.day, 2)
    \o <<"T">> \o Pad(dt.hour, 2) \o <<":">> \o Pad(dt.minute, 2) \o <<":">>
    \o Pad(dt.second, 2)
    \o (IF dt.microsecond > 0 THEN <<".">> \o Pad(dt.microsecond, 6) ELSE <<>>)
    \o IsoOffset(dt.tz)

\* datetime.strftime("%Y-%m-%d")
strftime_ymd(dt) == Pad(dt.year, 4) \o <<"-">> \o Pad(dt.month, 2) \o <<"-">> \o Pad(dt.day, 2)

----------------------------------------------------------------------------
(* Cursor Resolver: get_starting_time and get_url_params *)

\* dict.get(k)
Get(d, k) == IF k \in DOMAIN d THEN d[k] ELSE None

\* if next_page_token: (None and 0 are falsy)
TokenTruthy(tok) == tok # <<>> /\ tok[1] # 0

ReportStreams ==
    {"profit_and_loss", "report_account_transactions", "profit_and_loss_cash_based",
     "report_account_transactions_cash_based"}

CashStreams == {"profit_and_loss_cash_based", "report_account_transactions_cash_based"}

\* A resolver that prefers the configured start_date to the bookmark.
get_starting_time_start_first(cfg, bm) ==
    IF Truthy(Get(cfg, "start_date")) THEN cfg["start_date"] ELSE bm

\* get_starting_time(context): rep_key or start_date
get_starting_time(cfg, bm) ==
    LET start_date == IF Truthy(Get(cfg, "start_date")) THEN cfg["start_date"] ELSE None
    IN  IF Truthy(bm) THEN bm ELSE start_date

\* Lines 161-165: the parsed base plus one second, microseconds dropped.
ResolveStart(parsed) == TruncateMicros(AddOneSecond(parsed))

\* Lines 167-169: isoformat(), split on ":", join all but the last part with ":"
\* and append the last part.
WireFormat(dt) ==
    LET splited_start_date == Split(isoformat(dt), ":")
        n == Len(splited_start_date)
    IN  Join(SubSeq(splited_start_date, 1, n - 1), ":") \o splited_start_date[n]

\* A month end that takes February to have 28 days in every year.
LastDayOfMonthNoLeap(now) ==
    [now EXCEPT !.day = IF now.month = 2 THEN 28 ELSE monthrange(now.year, now.month)]

\* today.replace(day=last_day).strftime("%Y-%m-%d")
LastDayOfMonth(now) == [now EXCEPT !.day = monthrange(now.year, now.month)]

ContextParams(ctx, keys) ==
    IF ctx = None THEN <<>> ELSE [k \in keys |-> Get(ctx[1], k)]

PageParam(tok) == IF TokenTruthy(tok) THEN "page" :> tok[1] ELSE <<>>

\* A get_url_params whose report branch adds to the standard params instead of
\* starting from an empty dict.
get_url_params_keep_standard(nm, cfg, ctx, tok, bm, now) ==
    LET rep_key_value == get_starting_time(cfg, bm)
        std_parsed == _infer_date(rep_key_value)
        std == ContextParams(ctx, {"organization_id", "account_id"}) @@ PageParam(tok)
               @@ (IF rep_key_value # None /\ std_parsed # <<>>
                   THEN "last_modified_time" :> WireFormat(ResolveStart(std_parsed[1]))
                   ELSE <<>>)
        rep_base == IF Truthy(Get(cfg, "reports_start_date"))
                    THEN cfg["reports_start_date"] ELSE rep_key_value
        rep_parsed == _infer_date(rep_base)
        rep == ("from_date" :> strftime_ymd(rep_parsed[1]))
               @@ ("to_date" :> strftime_ymd(LastDayOfMonth(now)))
               @@ (IF nm \in CashStreams THEN "cash_based" :> TRUE ELSE <<>>)
               @@ std
    IN  IF rep_key_value # None /\ std_parsed = <<>> THEN <<>>
        ELSE IF nm \notin ReportStreams THEN <<std>>
        ELSE IF rep_parsed = <<>> THEN <<>>
        ELSE <<rep>>

\* get_url_params(context, next_page_token): <<>> when it raises, else <<params>>.
get_url_params(nm, cfg, ctx, tok, bm, now) ==
    LET rep_key_value == get_starting_time(cfg, bm)
        std_parsed == _infer_date(rep_key_value)
        std == ContextParams(ctx, {"organization_id", "account_id"}) @@ PageParam(tok)
               @@ (IF rep_key_value # None /\ std_parsed # <<>>
                   THEN "last_modified_time" :> WireFormat(ResolveStart(std_parsed[1]))
                   ELSE <<>>)
        rep_base == IF Truthy(Get(cfg, "reports_start_date"))
                    THEN cfg["reports_start_date"] ELSE rep_key_value
        rep_parsed == _infer_date(rep_base)
        rep == PageParam(tok) @@ ContextParams(ctx, {"organization_id"})
               @@ ("from_date" :> strftime_ymd(rep_parsed[1]))
               @@ ("to_date" :> strftime_ymd(LastDayOfMonth(now)))
               @@ (IF nm \in CashStreams THEN "cash_based" :> TRUE ELSE <<>>)
    IN  IF rep_key_value # None /\ std_parsed = <<>> THEN <<>>
        ELSE IF nm \notin ReportStreams THEN <<std>>
        ELSE IF rep_parsed = <<>> THEN <<>>
        ELSE <<rep>>

----------------------------------------------------------------------------
(* Paginator *)

\* dict.get(k, default)
GetOr(d, k, default) == IF k \in DOMAIN d THEN d[k] ELSE default

\* ZohoBooksPaginator.has_more(response)
has_more(json) == GetOr(GetOr(json, "page_context", <<>>), "has_more_page", FALSE)

\* A get_next that asks for the page it was just given.
get_next_same_page(json) ==
    IF has_more(json) THEN <<GetOr(GetOr(json, "page_context", <<>>), "page", 1)>> ELSE None

\* ZohoBooksPaginator.get_next(response)
get_next(json) ==
    IF has_more(json)
    THEN <<GetOr(GetOr(json, "page_context", <<>>), "page", 1) + 1>>
    ELSE None

\* A paginator that starts at 0, the falsy token that sends no page parameter.
get_new_paginator_from_zero == [value |-> <<0>>, finished |-> FALSE]

\* get_new_paginator(): ZohoBooksPaginator(start_value=1)
get_new_paginator == [value |-> <<1>>, finished |-> FALSE]

\* BaseAPIPaginator.advance(response), which calls has_more and get_next:
\* <<>> when it raises RuntimeError (the new token equals the current one).
advance(pg, json) ==
    IF ~has_more(json) THEN <<[pg EXCEPT !.finished = TRUE]>>
    ELSE LET new_value == get_next(json)
         IN  IF TokenTruthy(new_value) /\ new_value = pg.value THEN <<>>
             ELSE IF ~TokenTruthy(new_value) THEN <<[pg EXCEPT !.finished = TRUE]>>
             ELSE <<[pg EXCEPT !.value = new_value]>>

----------------------------------------------------------------------------
(* Response Classifier and Rate Tracker *)

\* RESTStream.extra_retry_statuses, which ZohoBooksStream inherits unchanged.
extra_retry_statuses == {429}

\* One attempt more than the class attribute allows.
backoff_max_tries_plus_one == 10 + 1

backoff_max_tries == 10

\* backoff.expo(base, factor, max_value): the value the generator yields after
\* k others; n, the exponent, grows only while factor * base ** n is below
\* max_value.
RECURSIVE ExpoFrom(_, _, _, _, _)
ExpoFrom(base, factor, max_value, n, k) ==
    LET a == factor * (base ^ n)
    IN  IF k = 0 THEN (IF a < max_value THEN a ELSE max_value)
        ELSE ExpoFrom(base, factor, max_value, IF a < max_value THEN n + 1 ELSE n, k - 1)

expo(base, factor, max_value, k) == ExpoFrom(base, factor, max_value, 0, k)

\* A wait generator with base and factor taken for each other.
backoff_wait_generator_swapped(k) == expo(5, 4, 180, k)

\* backoff_wait_generator: the nominal wait before retry k, counted from 0.
backoff_wait_generator(k) == expo(4, 5, 180, k)

\* The paced streams without journals.
PacedStreamsDetailsOnly == {"purchase_orders_details", "sales_orders_details", "item_details"}

\* validate_response, lines 234-239: the streams that take the pacing sleep.
PacedStreams == {"purchase_orders_details", "sales_orders_details", "item_details", "journals"}

\* A quota test that lets a remaining quota of exactly 0 pass.
QuotaExhaustedBelowZero(resp) ==
    "X-Rate-Limit-Remaining" \in DOMAIN resp.headers
    /\ resp.headers["X-Rate-Limit-Remaining"] < 0

\* A quota test that also asks for the X-Rate-Limit-Limit header.
QuotaExhaustedNeedsLimit(resp) ==
    /\ "X-Rate-Limit-Limit" \in DOMAIN resp.headers
    /\ "X-Rate-Limit-Remaining" \in DOMAIN resp.headers
    /\ resp.headers["X-Rate-Limit-Remaining"] <= 0

\* validate_response, lines 224-225: the quota header is present and <= 0.
QuotaExhausted(resp) ==
    "X-Rate-Limit-Remaining" \in DOMAIN resp.headers
    /\ resp.headers["X-Rate-Limit-Remaining"] <= 0

\* The seconds of the day that have passed at dt.
SecondOfDay(dt) == dt.hour * 3600 + dt.minute * 60 + dt.second

\* sleep_until_next_day, lines 202-204:
\* (now + timedelta(days=1)).replace(hour=0, minute=0, second=0, microsecond=0)
next_day(now) ==
    [AddOneSecond([now EXCEPT !.hour = 23, !.minute = 59, !.second = 59])
        EXCEPT !.microsecond = 0]

\* A time_to_sleep measured to the midnight the day of now began with.
sleep_until_next_day_same_day(now) ==
    LET borrow == IF now.microsecond > 0 THEN 1 ELSE 0
    IN  [seconds |-> 0 - SecondOfDay(now) - borrow + 1,
         microseconds |-> (1000000 - now.microsecond) % 1000000]

\* sleep_until_next_day, lines 206-208: time_to_sleep, that is
\* (next_day - now).total_seconds() + 1, in whole seconds and microseconds;
\* next_day is the midnight that ends the day of now, 86400 s after it began.
sleep_until_next_day(now) ==
    LET borrow == IF now.microsecond > 0 THEN 1 ELSE 0
    IN  [seconds |-> 86400 - SecondOfDay(now) - borrow + 1,
         microseconds |-> (1000000 - now.microsecond) % 1000000]

\* The reading of datetime.now() when a sleep of d that began at now is over
\* (d of at most a day and a second).
Elapse(now, d) ==
    LET us == now.microsecond + d.microseconds
        secs == SecondOfDay(now) + d.seconds + us \div 1000000
        rem == secs % 86400
        base == IF secs >= 86400 THEN next_day(now) ELSE now
    IN  [base EXCEPT !.hour = rem \div 3600, !.minute = (rem % 3600) \div 60,
                     !.second = rem % 60, !.microsecond = us % 1000000]

\* is_valid_json(response.text)
is_valid_json(body) == body = "json"

\* A classifier that tests the 4xx range before the retriable statuses.
ClassifyFatalFirst(resp) ==
    IF 400 < resp.status_code /\ resp.status_code < 500 THEN "Fatal"
    ELSE IF \/ resp.status_code \in {429}
            \/ (500 <= resp.status_code /\ resp.status_code < 600)
            \/ resp.status_code = 400
    THEN "Retriable"
    ELSE IF resp.status_code = 200 /\ resp.text # "json" THEN "Retriable"
    ELSE "Success"

\* A classifier that lets a quota-exhausted response through as a success once
\* the sleep is over.
ClassifyQuotaFirst(resp) ==
    IF "X-Rate-Limit-Remaining" \in DOMAIN resp.headers
       /\ resp.headers["X-Rate-Limit-Remaining"] <= 0
    THEN "Success"
    ELSE IF \/ resp.status_code \in {429}
            \/ (500 <= resp.status_code /\ resp.status_code < 600)
            \/ resp.status_code = 400
    THEN "Retriable"
    ELSE IF 400 < resp.status_code /\ resp.status_code < 500 THEN "Fatal"
    ELSE IF resp.status_code = 200 /\ resp.text # "json" THEN "Retriable"
    ELSE "Success"

\* validate_response, lines 241-253: the exception it raises, "Success" for none.
Classify(resp) ==
    IF \/ resp.status_code \in extra_retry_statuses
       \/ (500 <= resp.status_code /\ resp.status_code < 600)
       \/ resp.status_code = 400
    THEN "Retriable"
    ELSE IF 400 < resp.status_code /\ resp.status_code < 500 THEN "Fatal"
    ELSE IF resp.status_code = 200 /\ ~is_valid_json(resp.text) THEN "Retriable"
    ELSE "Success"

\* validate_response, lines 234-240: the pacing sleep of the named streams.
PacingSleep(nm) == IF nm \in PacedStreams THEN <<"pacing">> ELSE <<>>

\* _request, lines 51-53: both rate-limit headers are there (and not empty).
HasRateHeaders(resp) ==
    /\ "X-Rate-Limit-Limit" \in DOMAIN resp.headers
    /\ "X-Rate-Limit-Remaining" \in DOMAIN resp.headers

\* _request, line 58: the condition under which the warning is logged.
AlertCondition(resp, alerted) ==
    /\ resp.headers["X-Rate-Limit-Limit"] - resp.headers["X-Rate-Limit-Remaining"] < 500
    /\ ~alerted

\* parse_response: <<>> when response.json() raises, else <<records>>.
parse_response(resp) ==
    IF resp.text = "empty" /\ resp.status_code = 200 THEN <<<<>>>>
    ELSE IF ~is_valid_json(resp.text) THEN <<>>
    ELSE <<GetOr(resp.json, "records", <<>>)>>

----------------------------------------------------------------------------
(* Detail Enrichment Batcher: _divide_chunks *)

\* list[i:j] of Python, for 0 <= i <= j.
Slice(list, i, j) == SubSeq(list, i + 1, IF j < Len(list) THEN j ELSE Len(list))

\* The default of _divide_chunks' limit parameter, which every caller uses.
limit == 100

\* Chunks that are one element short: list[i : i + limit - 1].
RECURSIVE DivideFromShort(_, _, _)
DivideFromShort(list, i, lim) ==
    IF i >= Len(list) THEN <<>>
    ELSE <<Slice(list, i, i + lim - 1)>> \o DivideFromShort(list, i + lim, lim)

_divide_chunks_short(list, lim) == DivideFromShort(list, 0, lim)

\* for i in range(i, len(list), limit): yield list[i : i + limit]
RECURSIVE DivideFrom(_, _, _)
DivideFrom(list, i, lim) ==
    IF i >= Len(list) THEN <<>>
    ELSE <<Slice(list, i, i + lim)>> \o DivideFrom(list, i + lim, lim)

\* list(self._divide_chunks(list, limit))
_divide_chunks(list, lim) == DivideFrom(list, 0, lim)

----------------------------------------------------------------------------
(* Detail Enrichment Batcher: ItemsStream.parse_response and                 *)
(* SalesOrdersStream.parse_response with their configuration flag set        *)

\* The flag that turns the enrichment of a stream on.
DetailsFlag == [items |-> "use_item_details", sales_orders |-> "use_sales_details"]

\* The query parameter that carries the identifiers of a batch.
DetailsParam == [items |-> "item_ids", sales_orders |-> "salesorder_ids"]

\* if not self.config.get("use_item_details", False): ... return
EnrichingByDefault(stream, cfg) ==
    stream \in DOMAIN DetailsFlag /\ GetOr(cfg, DetailsFlag[stream], TRUE)

Enriching(stream, cfg) == stream \in DOMAIN DetailsFlag /\ GetOr(cfg, DetailsFlag[stream], FALSE)

\* The order in which get_url_params inserts the keys of params.
ParamOrder ==
    <<"organization_id", "account_id", "page", "last_modified_time", "from_date", "to_date",
      "cash_based">>

\* A query string with the parameters in alphabetical order.
UrlQuerySorted(params) ==
    LET order == <<"account_id", "cash_based", "from_date", "last_modified_time",
                   "organization_id", "page", "to_date">>
        present == SelectSeq(order,
                             LAMBDA k : /\ k \in DOMAIN params
                                        /\ k \notin {"page", "cash_based"} => params[k] # None)
    IN  [i \in 1..Len(present) |-> <<present[i], params[present[i]]>>]

\* The query string of the prepared request, as a list of <<key, value>>:
\* the params in insertion order, those whose value is None left out.
UrlQuery(params) ==
    LET present == SelectSeq(ParamOrder,
                             LAMBDA k : /\ k \in DOMAIN params
                                        /\ k \notin {"page", "cash_based"} => params[k] # None)
    IN  [i \in 1..Len(present) |-> <<present[i], params[present[i]]>>]

\* response.url.replace(url_base + path + "?", "").split("&")[0]
\*     .replace("organization_id=", ""): the value of the first parameter of
\* the query when that is organization_id, else the text key=value itself.
OrgIdFromUrl(query) ==
    IF query = <<>> THEN <<>>
    ELSE IF query[1][1] = "organization_id" THEN query[1][2]
    ELSE <<query[1][1], "=", query[1][2]>>

\* The keys of OrderedDict((record.get(field), record) for record in records):
\* each identifier where it first occurs.
FirstOccurrences(records, field) ==
    LET first == SelectSeq([i \in 1..Len(records) |-> i],
                           LAMBDA i : \A j \in 1..(i - 1) :
                                         Get(records[j], field) # Get(records[i], field))
    IN  [k \in 1..Len(first) |-> Get(records[first[k]], field)]

\* record_ids: the keys in order and, for each key, the last record that has it.
OrderedDictOf(records, field) ==
    [keys |-> FirstOccurrences(records, field),
     map |-> [k \in {Get(records[i], field) : i \in 1..Len(records)} |->
                records[CHOOSE i \in 1..Len(records) :
                           /\ Get(records[i], field) = k
                           /\ \A j \in (i + 1)..Len(records) : Get(records[j], field) # k]]]

\* A merge in which the detail's value replaces the primary record's.
MergeOverwrite(record, detail) ==
    [k \in DOMAIN record \cup DOMAIN detail |->
        IF k \in DOMAIN detail THEN detail[k] ELSE record[k]]

\* for key in [key for key in detail.keys() if key not in record]:
\*     record[key] = detail[key]
Merge(record, detail) ==
    LET missing == {k \in DOMAIN detail : k \notin DOMAIN record}
    IN  [k \in DOMAIN record \cup missing |-> IF k \in missing THEN detail[k] ELSE record[k]]

----------------------------------------------------------------------------
(* The stream tree of streams.py: parent_stream_type, the field that          *)
(* identifies a record, get_child_context, and the root's parse_response     *)

\* The modelled streams, in the order of tap.STREAM_TYPES.
STREAM_TYPES ==
    <<"organization_id", "journals_id", "journals", "chart_of_accounts", "sales_orders",
      "sales_orders_details", "items", "item_details", "account_transactions">>

parent_stream_type ==
    [organization_id |-> "", journals_id |-> "organization_id", journals |-> "journals_id",
     chart_of_accounts |-> "organization_id", sales_orders |-> "organization_id",
     sales_orders_details |-> "sales_orders", items |-> "organization_id",
     item_details |-> "items", account_transactions |-> "chart_of_accounts"]

\* The record field get_child_context hands down (and record_ids is keyed by).
IdField ==
    [organization_id |-> "organization_id", journals_id |-> "journal_id",
     journals |-> "journal_id", chart_of_accounts |-> "account_id",
     sales_orders |-> "salesorder_id", sales_orders_details |-> "salesorder_id",
     items |-> "item_id", item_details |-> "item_id",
     account_transactions |-> "transaction_id"]

\* Stream.child_streams, the selected ones, in the order they were discovered.
child_streams(stream, sel) ==
    SelectSeq(STREAM_TYPES, LAMBDA c : parent_stream_type[c] = stream /\ c \in sel)

\* A get_child_context that reads organization_id from the record in every
\* stream.
get_child_context_from_record(stream, record, ctx) ==
    IF stream = "organization_id" THEN [organization_id |-> record["organization_id"]]
    ELSE (IdField[stream] :> record[IdField[stream]])
         @@ ("organization_id" :> Get(record, "organization_id"))

\* get_child_context(record, context) of the parent streams; ctx is <<>> for
\* the root, whose context is None, and <<context>> otherwise.
get_child_context(stream, record, ctx) ==
    IF stream = "organization_id" THEN [organization_id |-> record["organization_id"]]
    ELSE (IdField[stream] :> record[IdField[stream]])
         @@ ("organization_id" :> Get(ctx[1], "organization_id"))

\* The decimal digits of a natural number.
RECURSIVE Decimal(_)
Decimal(n) == IF n < 10 THEN <<Digit[n + 1]>> ELSE Decimal(n \div 10) \o <<Digit[(n % 10) + 1]>>

\* str(v) for a configuration value: None, [int |-> n] or [str |-> s].
str(v) ==
    IF v = None THEN <<"N", "o", "n", "e">>
    ELSE IF "int" \in DOMAIN v THEN Decimal(v.int)
    ELSE v.str

\* An organization stream that passes every record whatever the pin.
OrgParseUnpinned(cfg, records) == records

\* OrganizationIdStream.parse_response: without a pin every record, and then
\* in either case the records whose organization_id equals str(pin).
OrgParse(cfg, records) ==
    LET pin == Get(cfg, "organization_id")
    IN  (IF ~Truthy(pin) THEN records ELSE <<>>)
        \o SelectSeq(records, LAMBDA item : item["organization_id"] = str(pin))

----------------------------------------------------------------------------
(* The provider *)

MaxPages == 2
MaxRecs == 2
MaxQuotaTries == 1

\* What the provider answers during a run: a page, a fatal or a transient
\* error, each with a decodable or a garbled body, without rate-limit headers,
\* with quota left, or with the quota used up.
Statuses == {200, 404, 503}

Bodies == {"json", "garbled"}

HeaderSets ==
    {<<>>,
     ("X-Rate-Limit-Limit" :> 1000) @@ ("X-Rate-Limit-Remaining" :> 0),
     ("X-Rate-Limit-Limit" :> 1000) @@ ("X-Rate-Limit-Remaining" :> 600)}

\* Every kind of response validate_response tells apart.
ClassifyStatuses == {199, 200, 201, 204, 301, 399, 400, 401, 404, 429, 499, 500, 503, 599, 600}

ClassifyBodies == {"json", "garbled", "empty"}

ClassifyHeaderSets ==
    HeaderSets \cup {"X-Rate-Limit-Remaining" :> 0, "X-Rate-Limit-Limit" :> 1000}

\* The provider holds npages pages of nrecs records each; record i of page p
\* is [id |-> <<p, i>>].
PageRecords(srv, p) == [i \in 1..srv.nrecs |-> [id |-> <<p, i>>]]

\* The envelope the provider returns for page p.
PageJson(srv, p) ==
    [records |-> PageRecords(srv, p),
     page_context |-> [page |-> p, has_more_page |-> p < srv.npages]]

\* The responses the provider may give to a request with query params: every
\* status, body and header set, unless the provider is one that is held to some.
Responses(srv, params) ==
    {[status_code |-> st, text |-> b, headers |-> h,
      json |-> IF b = "json" /\ st < 400 THEN PageJson(srv, GetOr(params, "page", 1))
               ELSE <<>>] :
        st \in GetOr(srv, "statuses", Statuses), b \in GetOr(srv, "bodies", Bodies),
        h \in GetOr(srv, "headers", HeaderSets)}

----------------------------------------------------------------------------
(* Stream Executor: RESTStream.request_records with ZohoBooksStream's       *)
(* get_new_paginator, get_url_params, _request, validate_response and       *)
(* parse_response.                                                          *)

ExecIdle ==
    /\ server = [npages |-> 1, nrecs |-> 0]
    /\ pc = "Idle"
    /\ paginator = get_new_paginator
    /\ prepared = <<>>
    /\ tries = 0
    /\ quota_tries = 0
    /\ response = <<>>
    /\ verdict = ""
    /\ slept = <<>>
    /\ rate_limit_alert = FALSE
    /\ rec_i = 0
    /\ emitted = <<>>
    /\ sent = <<>>
    /\ failure = ""

CursorIdle ==
    /\ cpc = "start"
    /\ url_params = <<>>
    /\ resolved = <<>>

RestIdle ==
    /\ waited = <<>>
    /\ alert_of = <<>>
    /\ api_url = <<>>

PartsIdle ==
    /\ RestIdle
    /\ ids = <<>>
    /\ batches = <<>>
    /\ selected = {}
    /\ stack = <<>>
    /\ inflight = 0
    /\ log = <<>>

Init ==
    /\ name = "invoices"
    /\ config = [start_date |-> None, reports_start_date |-> None]
    /\ bookmark = <<"2", "0", "2", "3", "-", "0", "1", "-", "0", "1", "T", "0", "0", ":", "0", "0",
                     ":", "0", "0", "Z">>
    /\ today = [year |-> 2024, month |-> 2, day |-> 10, hour |-> 8, minute |-> 0,
                second |-> 0, microsecond |-> 0, tz |-> <<>>]
    /\ context \in {<<[organization_id |-> <<"1", "1", "1">>]>>,
                    <<[organization_id |-> <<"2", "2", "2">>]>>}
    /\ CursorIdle
    /\ PartsIdle
    /\ server \in {[npages |-> k, nrecs |-> n] : k \in 1..MaxPages, n \in {0, MaxRecs}}
    /\ pc = "Preparing"
    /\ paginator = get_new_paginator
    /\ prepared = <<>>
    /\ tries = 0
    /\ quota_tries = 0
    /\ response = <<>>
    /\ verdict = ""
    /\ slept = <<>>
    /\ rate_limit_alert = FALSE
    /\ rec_i = 0
    /\ emitted = <<>>
    /\ sent = <<>>
    /\ failure = ""

\* prepare_request(context, next_page_token=paginator.current_value)
PrepareRequest ==
    /\ pc = "Preparing"
    /\ response = <<>>
    /\ LET p == get_url_params(name, config, context, paginator.value, bookmark, today)
       IN  IF p = <<>>
           THEN /\ pc' = "Failed"
                /\ failure' = "ValueError"
                /\ UNCHANGED prepared
           ELSE /\ pc' = "Requesting"
                /\ prepared' = p[1]
                /\ UNCHANGED failure
    /\ tries' = 0
    /\ quota_tries' = 0
    /\ waited' = <<>>
    /\ UNCHANGED <<server, paginator, response, verdict, slept, rate_limit_alert, rec_i,
                   emitted, sent, inputVars, cursorVars, chunkVars, treeVars, alert_of, api_url>>

\* One call of _request by the backoff decorator: the request goes out and the
\* provider answers (with the quota used up at most MaxQuotaTries times per
\* prepared request).
SendRequest ==
    /\ pc = "Requesting"
    /\ \E resp \in Responses(server, prepared) :
          /\ QuotaExhausted(resp) => quota_tries < MaxQuotaTries
          /\ response' = resp
    /\ tries' = tries + 1
    /\ sent' = Append(sent, prepared)
    /\ pc' = "Validating"
    /\ UNCHANGED <<server, paginator, prepared, quota_tries, verdict, slept, rate_limit_alert,
                   rec_i, emitted, failure, inputVars, cursorVars, chunkVars, treeVars, restVars>>

\* validate_response, lines 222-232: a quota header <= 0 starts
\* sleep_until_next_day.
ValidateResponse ==
    /\ pc = "Validating"
    /\ pc' = IF QuotaExhausted(response) THEN "QuotaSleeping" ELSE "Classifying"
    /\ UNCHANGED <<server, paginator, prepared, tries, quota_tries, response, verdict, slept,
                   rate_limit_alert, rec_i, emitted, sent, failure, inputVars, cursorVars, chunkVars, treeVars, restVars>>

\* A wake-up that gives the attempt back to the backoff decorator.
WakeUpRefund ==
    /\ pc = "QuotaSleeping"
    /\ slept' = Append(slept, "quota")
    /\ quota_tries' = quota_tries + 1
    /\ tries' = tries - 1
    /\ today' = Elapse(today, sleep_until_next_day(today))
    /\ pc' = "Classifying"
    /\ UNCHANGED <<server, paginator, prepared, response, verdict, rate_limit_alert,
                   rec_i, emitted, sent, failure, name, config, bookmark, context, cursorVars,
                   chunkVars, treeVars, restVars>>

\* sleep_until_next_day returns: time_to_sleep has passed.
WakeUp ==
    /\ pc = "QuotaSleeping"
    /\ slept' = Append(slept, "quota")
    /\ quota_tries' = quota_tries + 1
    /\ today' = Elapse(today, sleep_until_next_day(today))
    /\ pc' = "Classifying"
    /\ UNCHANGED <<server, paginator, prepared, tries, response, verdict, rate_limit_alert,
                   rec_i, emitted, sent, failure, name, config, bookmark, context, cursorVars,
                   chunkVars, treeVars, restVars>>

\* validate_response, lines 234-253, and what follows from what it raises: the
\* backoff decorator retries a RetriableAPIError until backoff_max_tries calls
\* were made and lets every other exception through; without an exception
\* _request goes on to lines 51-64 and request_records to parse_response.
ClassifyResponse ==
    /\ pc = "Classifying"
    /\ verdict' = Classify(response)
    /\ IF Classify(response) = "Retriable"
       THEN /\ slept' = slept \o PacingSleep(name)
            /\ IF tries < backoff_max_tries
               THEN pc' = "Backoff" /\ UNCHANGED failure
               ELSE pc' = "Failed" /\ failure' = "RetriableAPIError"
            /\ UNCHANGED <<rate_limit_alert, rec_i>>
       ELSE IF Classify(response) = "Fatal"
       THEN /\ slept' = slept \o PacingSleep(name)
            /\ pc' = "Failed"
            /\ failure' = "FatalAPIError"
            /\ UNCHANGED <<rate_limit_alert, rec_i>>
       ELSE /\ slept' = slept \o PacingSleep(name)
                        \o (IF HasRateHeaders(response) THEN <<"cooldown">> ELSE <<>>)
            /\ rate_limit_alert' =
                  (rate_limit_alert
                   \/ (HasRateHeaders(response) /\ AlertCondition(response, rate_limit_alert)))
            /\ rec_i' = 0
            /\ IF parse_response(response) = <<>>
               THEN pc' = "Failed" /\ failure' = "JSONDecodeError"
               ELSE pc' = "Extracting" /\ UNCHANGED failure
    /\ UNCHANGED <<server, paginator, prepared, tries, quota_tries, response, emitted, sent,
                   inputVars, cursorVars, chunkVars, treeVars, restVars>>

\* The backoff decorator takes the next value of backoff_wait_generator, waits,
\* and calls _request again with the same prepared request (the failed call's
\* response is gone with its frame).
BackoffWait ==
    /\ pc = "Backoff"
    /\ pc' = "Requesting"
    /\ waited' = Append(waited, backoff_wait_generator(Len(waited)))
    /\ response' = <<>>
    /\ verdict' = ""
    /\ slept' = <<>>
    /\ UNCHANGED <<server, paginator, prepared, tries, quota_tries, rate_limit_alert, rec_i,
                   emitted, sent, failure, inputVars, cursorVars, chunkVars, treeVars, alert_of,
                   api_url>>

\* request_records yields the next record of parse_response(resp).
EmitRecord ==
    /\ pc = "Extracting"
    /\ rec_i < Len(parse_response(response)[1])
    /\ rec_i' = rec_i + 1
    /\ emitted' = Append(emitted, parse_response(response)[1][rec_i + 1])
    /\ UNCHANGED <<server, pc, paginator, prepared, tries, quota_tries, response, verdict,
                   slept, rate_limit_alert, sent, failure, inputVars, cursorVars, chunkVars, treeVars, restVars>>

\* The page is exhausted: paginator.advance(resp), which reads response.json().
Advance ==
    /\ pc = "Extracting"
    /\ rec_i = Len(parse_response(response)[1])
    /\ IF ~is_valid_json(response.text)
       THEN pc' = "Failed" /\ failure' = "JSONDecodeError" /\ UNCHANGED paginator
       ELSE IF advance(paginator, response.json) = <<>>
       THEN pc' = "Failed" /\ failure' = "RuntimeError" /\ UNCHANGED paginator
       ELSE /\ paginator' = advance(paginator, response.json)[1]
            /\ pc' = IF paginator'.finished THEN "Done" ELSE "Preparing"
            /\ UNCHANGED failure
    /\ UNCHANGED <<server, prepared, tries, quota_tries, response, verdict, slept,
                   rate_limit_alert, rec_i, emitted, sent, inputVars, cursorVars, chunkVars, treeVars, restVars>>

\* The next iteration of request_records' loop: the page's response, and what
\* was noted about it, are dropped.
NextPage ==
    /\ pc = "Preparing"
    /\ response # <<>>
    /\ response' = <<>>
    /\ verdict' = ""
    /\ slept' = <<>>
    /\ UNCHANGED <<server, pc, paginator, prepared, tries, quota_tries, rate_limit_alert,
                   rec_i, emitted, sent, failure, inputVars, cursorVars, chunkVars, treeVars, restVars>>

Next ==
    \/ PrepareRequest
    \/ SendRequest
    \/ ValidateResponse
    \/ WakeUp
    \/ ClassifyResponse
    \/ BackoffWait
    \/ EmitRecord
    \/ Advance
    \/ NextPage

----------------------------------------------------------------------------
(* The paginator on its own: one paginator.advance for every envelope and    *)
(* every current token drawn in InitPaginator.                               *)

MaxPageNo == 4

\* The page_context blocks a response may carry, "page_context" absent included.
Envelopes ==
    {[records |-> <<>>]}
    \cup {[records |-> <<>>, page_context |-> c] :
             c \in {<<>>} \cup {[has_more_page |-> b] : b \in BOOLEAN}
                   \cup {[page |-> n] : n \in 0..MaxPageNo}
                   \cup {[has_more_page |-> b, page |-> n] : b \in BOOLEAN, n \in 0..MaxPageNo}}

FixedInputs ==
    /\ name = "invoices"
    /\ config = [start_date |-> None, reports_start_date |-> None]
    /\ bookmark = None
    /\ today = [year |-> 2024, month |-> 2, day |-> 10, hour |-> 8, minute |-> 0,
                second |-> 0, microsecond |-> 0, tz |-> <<>>]
    /\ context = <<[organization_id |-> <<"1", "1", "1">>]>>
    /\ CursorIdle

InitPaginator ==
    /\ FixedInputs
    /\ PartsIdle
    /\ server = [npages |-> 1, nrecs |-> 0]
    /\ pc = "Extracting"
    /\ paginator \in {[value |-> <<v>>, finished |-> FALSE] : v \in 1..MaxPageNo}
    /\ prepared = [organization_id |-> <<"1", "1", "1">>, account_id |-> None,
                   page |-> paginator.value[1]]
    /\ tries = 1
    /\ quota_tries = 0
    /\ response \in {[status_code |-> 200, text |-> "json", headers |-> <<>>, json |-> e] :
                        e \in Envelopes}
    /\ verdict = "Success"
    /\ slept = <<>>
    /\ rate_limit_alert = FALSE
    /\ rec_i = 0
    /\ emitted = <<>>
    /\ sent = <<prepared>>
    /\ failure = ""

NextPaginator == Advance

SpecPaginator == InitPaginator /\ [][NextPaginator]_vars

----------------------------------------------------------------------------
(* The classifier on its own: one validate_response for every response drawn *)
(* in InitClassify, on the first and on the last attempt of the backoff.     *)

\* The streams whose responses are classified: the four named in
\* validate_response and two others.
ClassifyStreams ==
    {"purchase_orders_details", "sales_orders_details", "item_details", "journals",
     "invoices", "items"}

InitClassify ==
    /\ name \in ClassifyStreams
    /\ config = [start_date |-> None, reports_start_date |-> None]
    /\ bookmark = None
    /\ today = [year |-> 2024, month |-> 2, day |-> 10, hour |-> 8, minute |-> 0,
                second |-> 0, microsecond |-> 0, tz |-> <<>>]
    /\ context = <<[organization_id |-> <<"1", "1", "1">>]>>
    /\ CursorIdle
    /\ PartsIdle
    /\ server = [npages |-> 1, nrecs |-> 1]
    /\ pc = "Validating"
    /\ paginator = get_new_paginator
    /\ prepared = [organization_id |-> <<"1", "1", "1">>, account_id |-> None, page |-> 1]
    /\ tries \in {1, backoff_max_tries}
    /\ quota_tries = 0
    /\ response \in {[status_code |-> st, text |-> b, headers |-> h,
                      json |-> IF b = "json" /\ st < 400 THEN PageJson(server, 1) ELSE <<>>] :
                        st \in ClassifyStatuses, b \in ClassifyBodies,
                        h \in ClassifyHeaderSets}
    /\ verdict = ""
    /\ slept = <<>>
    /\ rate_limit_alert = FALSE
    /\ rec_i = 0
    /\ emitted = <<>>
    /\ sent = [i \in 1..tries |-> prepared]
    /\ failure = ""

NextClassify == ValidateResponse \/ WakeUp \/ ClassifyResponse

SpecClassify == InitClassify /\ [][NextClassify]_vars

----------------------------------------------------------------------------
(* The cursor resolver on its own: one call of get_url_params for every      *)
(* stream name, configuration, bookmark and clock reading drawn in InitCursor. *)

\* A timestamp written in layout k of date_formats (the inputs of the resolver).
Render(dt, k) ==
    LET ymd == Pad(dt.year, 4) \o <<"-">> \o Pad(dt.month, 2) \o <<"-">> \o Pad(dt.day, 2)
        hm == <<"T">> \o Pad(dt.hour, 2) \o <<":">> \o Pad(dt.minute, 2)
        sec == <<":">> \o Pad(dt.second, 2)
        frac == <<".">> \o Pad(dt.microsecond, 6)
        zone == IF dt.tz = <<0>> THEN <<"Z">> ELSE IsoOffset(dt.tz)
    IN  CASE k = 1 -> ymd \o hm \o sec \o frac \o zone
          [] k = 2 -> ymd \o hm \o sec \o frac
          [] k = 3 -> ymd \o hm \o sec \o zone
          [] k = 4 -> ymd \o hm \o sec
          [] k = 5 -> ymd \o hm \o zone
          [] k = 6 -> ymd

Stamp(y, mo, d, h, mi, s, us, tz) ==
    [year |-> y, month |-> mo, day |-> d, hour |-> h, minute |-> mi, second |-> s,
     microsecond |-> us, tz |-> tz]

\* Instants at every carry boundary: second, minute, hour, day, month (28, 29,
\* 30 and 31 days), year; with and without a sub-second part.
Instants ==
    {Stamp(2023, 1, 1, 0, 0, 0, 0, <<0>>),
     Stamp(2023, 6, 15, 10, 20, 59, 999999, <<330>>),
     Stamp(2023, 3, 9, 7, 59, 59, 5, <<-480>>),
     Stamp(2023, 2, 28, 23, 59, 59, 500000, <<0>>),
     Stamp(2024, 2, 28, 23, 59, 59, 1, <<60>>),
     Stamp(2024, 2, 29, 23, 59, 59, 0, <<0>>),
     Stamp(2023, 4, 30, 23, 59, 59, 123456, <<-1>>),
     Stamp(2023, 12, 31, 23, 59, 59, 999999, <<0>>)}

\* What layout k keeps of an instant.
Kept(dt, k) ==
    [dt EXCEPT !.tz = IF k \in {1, 3, 5} THEN dt.tz ELSE <<>>,
               !.microsecond = IF k \in {1, 2} THEN dt.microsecond ELSE 0,
               !.second = IF k \in {5, 6} THEN 0 ELSE dt.second,
               !.minute = IF k = 6 THEN 0 ELSE dt.minute,
               !.hour = IF k = 6 THEN 0 ELSE dt.hour]

Layouts == 1..Len(date_formats)

Garbage == <<"n", "o", "t", "-", "a", "-", "d", "a", "t", "e">>

BaseStrings == {Render(dt, k) : dt \in Instants, k \in Layouts}

StartDates ==
    {None, Garbage, Render(Stamp(2022, 12, 31, 23, 59, 59, 0, <<0>>), 3),
     Render(Stamp(2020, 2, 29, 0, 0, 0, 0, <<>>), 6)}

\* Readings of datetime.now() in months of 29, 31, 28 and 30 days.
Clock ==
    {Stamp(2024, 2, 10, 8, 0, 0, 0, <<>>), Stamp(2023, 12, 31, 23, 59, 59, 5, <<>>),
     Stamp(2023, 2, 28, 12, 30, 0, 0, <<>>), Stamp(2023, 4, 1, 0, 0, 0, 0, <<>>)}

OrgIds == {<<"1", "1", "1">>, <<"2", "2", "2">>}

\* The context of a child of the organization stream, and the context of
\* account_transactions, which has an account_id too.
Contexts ==
    {<<[organization_id |-> <<"1", "1", "1">>]>>,
     <<[organization_id |-> <<"2", "2", "2">>, account_id |-> <<"9">>]>>}

ReportsStartDates ==
    {None, Render(Stamp(2021, 7, 4, 0, 0, 0, 0, <<>>), 6),
     Render(Stamp(2021, 12, 31, 23, 59, 59, 0, <<0>>), 3)}

InitCursor ==
    /\ name \in {"invoices"} \cup ReportStreams
    /\ config \in {[start_date |-> sd, reports_start_date |-> rd] :
                      sd \in StartDates, rd \in ReportsStartDates}
    /\ bookmark \in BaseStrings \cup {None, Garbage}
    /\ today \in Clock
    /\ context \in Contexts
    /\ cpc = "start"
    /\ url_params = <<>>
    /\ resolved = <<>>
    /\ ExecIdle
    /\ PartsIdle

\* get_url_params returns.
ResolveParams ==
    /\ cpc = "start"
    /\ get_url_params(name, config, context, <<1>>, bookmark, today) # <<>>
    /\ cpc' = "resolved"
    /\ url_params' = get_url_params(name, config, context, <<1>>, bookmark, today)[1]
    /\ resolved' = IF get_starting_time(config, bookmark) = None THEN <<>>
                   ELSE <<ResolveStart(_infer_date(get_starting_time(config, bookmark))[1])>>
    /\ UNCHANGED <<inputVars, execVars, chunkVars, treeVars, restVars>>

\* get_url_params raises (no layout of _infer_date matches).
ResolveFails ==
    /\ cpc = "start"
    /\ get_url_params(name, config, context, <<1>>, bookmark, today) = <<>>
    /\ cpc' = "error"
    /\ UNCHANGED <<url_params, resolved, inputVars, execVars, chunkVars, treeVars, restVars>>

NextCursor == ResolveParams \/ ResolveFails


SpecCursor == InitCursor /\ [][NextCursor]_vars

----------------------------------------------------------------------------
(* The Stream Executor run to its end: the provider answers every request,   *)
(* the program takes its next step whenever it has one, and the runs begin   *)
(* at several times of day.                                                  *)

\* Readings of datetime.now() when a run begins: midnight, the last
\* microsecond of a day, of a leap day and of a year, and mid-morning.
RunClock ==
    {Stamp(2023, 4, 1, 0, 0, 0, 0, <<>>), Stamp(2023, 6, 15, 23, 59, 59, 999999, <<>>),
     Stamp(2024, 2, 29, 23, 59, 59, 1, <<>>), Stamp(2023, 12, 31, 12, 0, 0, 500000, <<>>),
     Stamp(2024, 2, 10, 8, 0, 0, 0, <<>>)}

InitRun ==
    /\ name = "invoices"
    /\ config = [start_date |-> None, reports_start_date |-> None]
    /\ bookmark = None
    /\ today \in RunClock
    /\ context = <<[organization_id |-> <<"1", "1", "1">>]>>
    /\ CursorIdle
    /\ PartsIdle
    /\ server \in {[npages |-> k, nrecs |-> 1, bodies |-> {"json"}] : k \in 1..MaxPages}
    /\ pc = "Preparing"
    /\ paginator = get_new_paginator
    /\ prepared = <<>>
    /\ tries = 0
    /\ quota_tries = 0
    /\ response = <<>>
    /\ verdict = ""
    /\ slept = <<>>
    /\ rate_limit_alert = FALSE
    /\ rec_i = 0
    /\ emitted = <<>>
    /\ sent = <<>>
    /\ failure = ""

SpecRun == InitRun /\ [][Next]_vars /\ WF_vars(Next)

----------------------------------------------------------------------------
(* The Stream Executor over the pages of one invocation with the clock       *)
(* running: a standard stream and two report streams, every page answered    *)
(* with a decodable 200.                                                     *)

WindowStreams == {"invoices", "report_account_transactions", "profit_and_loss_cash_based"}

InitWindow ==
    /\ name \in WindowStreams
    /\ config \in {[start_date |-> sd, reports_start_date |-> rsd] :
                      sd \in {None, Render(Stamp(2020, 2, 29, 0, 0, 0, 0, <<>>), 6)},
                      rsd \in ReportsStartDates}
    /\ bookmark \in {None, Render(Stamp(2022, 12, 31, 23, 59, 59, 0, <<0>>), 3)}
    /\ today \in Clock
    /\ context \in Contexts
    /\ CursorIdle
    /\ PartsIdle
    /\ server \in {[npages |-> k, nrecs |-> n, statuses |-> {200}, bodies |-> {"json"},
                    headers |-> {<<>>}] : k \in 1..MaxPages, n \in {0, 1}}
    /\ pc = "Preparing"
    /\ paginator = get_new_paginator
    /\ prepared = <<>>
    /\ tries = 0
    /\ quota_tries = 0
    /\ response = <<>>
    /\ verdict = ""
    /\ slept = <<>>
    /\ rate_limit_alert = FALSE
    /\ rec_i = 0
    /\ emitted = <<>>
    /\ sent = <<>>
    /\ failure = ""

\* A second passes before get_url_params reads datetime.now() again.
ClockTick ==
    /\ pc = "Preparing"
    /\ today \in Clock
    /\ today' = AddOneSecond(today)
    /\ UNCHANGED <<name, config, bookmark, context, cursorVars, execVars, chunkVars, treeVars,
                   restVars>>

NextWindow ==
    \/ PrepareRequest
    \/ SendRequest
    \/ ValidateResponse
    \/ ClassifyResponse
    \/ EmitRecord
    \/ Advance
    \/ NextPage
    \/ ClockTick

SpecWindow == InitWindow /\ [][NextWindow]_vars

----------------------------------------------------------------------------
(* url_base: the API host chosen from the configured accounts-server *)

\* str.endswith(suffix), substring containment taken for it.
endswith_anywhere(s, suffix) ==
    \E i \in 1..(Len(s) - Len(suffix) + 1) : SubSeq(s, i, i + Len(suffix) - 1) = suffix

\* str.endswith(suffix)
endswith(s, suffix) ==
    Len(s) >= Len(suffix) /\ SubSeq(s, Len(s) - Len(suffix) + 1, Len(s)) = suffix

\* domain_mapping, in the order the dict holds its items.
domain_mapping ==
    <<[domain |-> <<".", "c", "o", "m">>, base_api_url |-> "https://www.zohoapis.com/books/"],
      [domain |-> <<".", "e", "u">>, base_api_url |-> "https://www.zohoapis.eu/books/"],
      [domain |-> <<".", "i", "n">>, base_api_url |-> "https://www.zohoapis.in/books/"],
      [domain |-> <<".", "c", "o", "m", ".", "a", "u">>, base_api_url |-> "https://www.zohoapis.com.au/books/"],
      [domain |-> <<".", "j", "p">>, base_api_url |-> "https://www.zohoapis.jp/books/"],
      [domain |-> <<".", "c", "a">>, base_api_url |-> "https://www.zohoapis.ca/books/"],
      [domain |-> <<".", "c", "o", "m", ".", "c", "n">>, base_api_url |-> "https://www.zohoapis.com.cn/books/"],
      [domain |-> <<".", "s", "a">>, base_api_url |-> "https://www.zohoapis.sa/books/"]>>

DEFAULT_ACCOUNTS_SERVER == <<"h", "t", "t", "p", "s", ":", "/", "/", "a", "c", "c", "o", "u", "n", "t", "s", ".", "z", "o", "h", "o", ".", "c", "o", "m">>

\* The loop of url_base from item k of domain_mapping on.
RECURSIVE UrlBaseFrom(_, _)
UrlBaseFrom(url, k) ==
    IF k > Len(domain_mapping) THEN "https://www.zohoapis.com/books/v3/"
    ELSE IF endswith(url, domain_mapping[k].domain)
    THEN domain_mapping[k].base_api_url \o "v3/"
    ELSE UrlBaseFrom(url, k + 1)

\* ZohoBooksStream.url_base
url_base(cfg) == UrlBaseFrom(GetOr(cfg, "accounts-server", DEFAULT_ACCOUNTS_SERVER), 1)

\* Values of accounts-server: a scheme and host, a bare name or nothing, then a
\* suffix of the table or another one, with or without a trailing slash.
ServerPrefixes == {<<"h", "t", "t", "p", "s", ":", "/", "/", "a", "c", "c", "o", "u", "n", "t", "s", ".", "z", "o", "h", "o">>, <<"z", "o", "h", "o">>, <<>>}

ServerSuffixes ==
    {domain_mapping[k].domain : k \in 1..Len(domain_mapping)}
    \cup {<<".", "o", "r", "g">>, <<".", "c", "o", "m", ".", "b", "r">>, <<".", "c", "o">>, <<".", "e", "u", ".", "c", "o", "m">>, <<".", "c", "o", "m", ".", "a", "u", ".", "i", "n">>, <<".", "u", "s", "a">>, <<".", "i", "n", "f", "o">>}

AccountsServers ==
    {p \o s \o t : p \in ServerPrefixes, s \in ServerSuffixes, t \in {<<>>, <<"/">>}}

\* Values of the uri setting: the accounts servers of two regions.
UriServers ==
    {<<"h", "t", "t", "p", "s", ":", "/", "/", "a", "c", "c", "o", "u", "n", "t", "s", ".", "z", "o", "h", "o", ".", "e", "u">>,
     <<"h", "t", "t", "p", "s", ":", "/", "/", "a", "c", "c", "o", "u", "n", "t", "s", ".", "z", "o", "h", "o", ".", "c", "o", "m", ".", "a", "u">>}

\* The settings url_base and account_server read: accounts-server there or
\* not, uri there or not.
RegionConfigs ==
    LET with_server == {[start_date |-> None, reports_start_date |-> None]}
                       \cup {("accounts-server" :> v)
                               @@ [start_date |-> None, reports_start_date |-> None] :
                                 v \in AccountsServers}
    IN  with_server \cup {("uri" :> u) @@ c : u \in UriServers, c \in with_server}

\* ZohoBooksStream.account_server: accounts-server, else uri, else the default.
account_server(cfg) ==
    GetOr(cfg, "accounts-server", GetOr(cfg, "uri", DEFAULT_ACCOUNTS_SERVER))

InitRegion ==
    /\ name = "invoices"
    /\ config \in RegionConfigs
    /\ bookmark = None
    /\ today = [year |-> 2024, month |-> 2, day |-> 10, hour |-> 8, minute |-> 0,
                second |-> 0, microsecond |-> 0, tz |-> <<>>]
    /\ context = <<[organization_id |-> <<"1", "1", "1">>]>>
    /\ CursorIdle
    /\ ExecIdle
    /\ PartsIdle

\* The first read of the cached property url_base.
ReadUrlBase ==
    /\ api_url = <<>>
    /\ api_url' = <<url_base(config)>>
    /\ UNCHANGED <<inputVars, cursorVars, execVars, chunkVars, treeVars, waited, alert_of>>

\* The first read of authenticator: the token endpoint is
\* f"{self.account_server}/oauth/v2/token".
ReadAuthenticator ==
    /\ prepared = <<>>
    /\ prepared' = [account_server |-> account_server(config), path |-> "/oauth/v2/token"]
    /\ UNCHANGED <<server, pc, paginator, tries, quota_tries, response, verdict, slept,
                   rate_limit_alert, rec_i, emitted, sent, failure, inputVars, cursorVars,
                   chunkVars, treeVars, restVars>>

NextRegion == ReadUrlBase \/ ReadAuthenticator

SpecRegion == InitRegion /\ [][NextRegion]_vars

----------------------------------------------------------------------------
(* _divide_chunks on its own: one call for every list of 0..MaxIds          *)
(* identifiers.                                                             *)

MaxIds == 250

\* n distinct identifiers, as the keys of record_ids are.
IdList(n) == [k \in 1..n |-> Pad(k, 3)]

InitChunks ==
    /\ RestIdle
    /\ FixedInputs
    /\ ExecIdle
    /\ ids \in {IdList(n) : n \in 0..MaxIds}
    /\ batches = <<>>
    /\ selected = {}
    /\ stack = <<>>
    /\ inflight = 0
    /\ log = <<>>

\* The caller drains the generator: for chunk in self._divide_chunks(ids).
DivideChunks ==
    /\ batches = <<>>
    /\ batches' = <<_divide_chunks(ids, limit)>>
    /\ UNCHANGED <<ids, inputVars, cursorVars, execVars, treeVars, restVars>>

NextChunks == DivideChunks

SpecChunks == InitChunks /\ [][NextChunks]_vars

Spec == Init /\ [][Next]_vars

----------------------------------------------------------------------------
(* The run over the stream tree: Stream.sync for the root, and for every      *)
(* record a stream yields the sync of its selected child streams, each with  *)
(* get_child_context(record, context) as its context.                        *)

MaxTreePages == 2
MaxTreeRecs == 2
MaxBatchRecs == 101

\* What the list endpoint of a stream holds for an identifier, and what the
\* detail endpoint holds for it.
Primary(stream, id) == (IdField[stream] :> id) @@ [name |-> <<"A">>, unit |-> None]

Detail(stream, id) ==
    (IdField[stream] :> id) @@ [name |-> <<"B">>, unit |-> <<"k", "g">>, sku |-> <<"X">>]

\* The records of page p of a stream: the organizations on one page, nrecs
\* records on each of the npages pages of every other stream.
TreeRecords(srv, stream, p) ==
    IF stream = "organization_id"
    THEN [i \in 1..Len(srv.orgs) |-> [organization_id |-> srv.orgs[i]]]
    ELSE [i \in 1..srv.nrecs |-> Primary(stream, Pad((p - 1) * srv.nrecs + i, 3))]

TreeJson(srv, stream, p) ==
    [records |-> TreeRecords(srv, stream, p),
     page_context |->
        [page |-> p,
         has_more_page |-> p < (IF stream = "organization_id" THEN 1 ELSE srv.npages)]]

Reverse(seq) == [i \in 1..Len(seq) |-> seq[Len(seq) + 1 - i]]

\* The ways the detail endpoint may answer a batch: every identifier in the
\* order asked; in reverse order; without the first; the first one twice; the
\* first one twice and the second time with one more field; nothing; a record
\* that was not asked for; a transient error status; a fatal error status.
DetailKinds ==
    {"full", "reversed", "omit", "twice", "grown", "empty", "stranger", "error", "fatal"}

\* The status of the answers that are errors.
DetailStatus == [error |-> 503, fatal |-> 404]

DetailBody(stream, asked, kind) ==
    LET full == [i \in 1..Len(asked) |-> Detail(stream, asked[i])]
    IN  CASE kind = "full" -> full
          [] kind = "reversed" -> Reverse(full)
          [] kind = "omit" -> Tail(full)
          [] kind = "twice" -> <<full[1]>> \o full
          [] kind = "grown" -> <<full[1], full[1] @@ [rate |-> <<"9">>]>> \o Tail(full)
          [] kind = "empty" -> <<>>
          [] kind = "stranger" -> <<Detail(stream, <<"9", "9", "9">>)>>

\* A new invocation of Stream.sync(context).
NewFrame(stream, ctx) ==
    [stream |-> stream, context |-> ctx, paginator |-> get_new_paginator,
     fpc |-> "Preparing", prepared |-> <<>>, json |-> <<>>, yields |-> <<>>, rec_i |-> 0,
     record_ids |-> [keys |-> <<>>, map |-> <<>>], chunks |-> <<>>, chunk_k |-> 0,
     detail |-> <<>>, detail_i |-> 0, todo |-> <<>>, child_context |-> <<>>,
     resume |-> ""]

TreeRunning == failure = "" /\ stack # <<>>

Top == stack[Len(stack)]

SetTop(f) == [stack EXCEPT ![Len(stack)] = f]

Event(ev, stream, data) == [ev |-> ev, stream |-> stream, depth |-> Len(stack), data |-> data]

\* The variables a run over the tree leaves alone.
treeRest ==
    <<inputVars, cursorVars, chunkVars, restVars, selected, server, pc, paginator, prepared,
      tries, quota_tries, response, verdict, slept, rate_limit_alert, rec_i, emitted, sent>>

\* The generator yielded a record: the caller builds the child context and
\* starts on the child streams.
Yielded(f, record, resume) ==
    LET children == child_streams(f.stream, selected)
    IN  [f EXCEPT !.fpc = "Dispatching", !.resume = resume, !.todo = children,
                  !.child_context =
                      IF children = <<>> THEN <<>>
                      ELSE <<get_child_context(f.stream, record, f.context)>>]

\* request_records: prepare_request(context, paginator.current_value) and the
\* call of _request; the request is on its way.
SendList ==
    /\ TreeRunning
    /\ Top.fpc = "Preparing"
    /\ LET p == get_url_params(Top.stream, config, Top.context, Top.paginator.value,
                               bookmark, today)
       IN  IF p = <<>>
           THEN /\ failure' = "ValueError"
                /\ UNCHANGED <<stack, inflight, log>>
           ELSE /\ stack' = SetTop([Top EXCEPT !.fpc = "AwaitList", !.prepared = p[1]])
                /\ inflight' = inflight + 1
                /\ log' = Append(log, Event("request", Top.stream, p[1]))
                /\ UNCHANGED failure
    /\ UNCHANGED treeRest

\* The list response arrives: an error that ends the run, or a page, whose
\* records parse_response starts to yield.
ReceiveList ==
    /\ TreeRunning
    /\ Top.fpc = "AwaitList"
    /\ inflight' = inflight - 1
    /\ \/ /\ server.fails
          /\ failure' = "FatalAPIError"
          /\ log' = Append(log, Event("response", Top.stream, <<>>))
          /\ UNCHANGED stack
       \/ /\ LET json == TreeJson(server, Top.stream, GetOr(Top.prepared, "page", 1))
                  records == parse_response([status_code |-> 200, text |-> "json",
                                             headers |-> <<>>, json |-> json])[1]
                  record_ids == OrderedDictOf(records, IdField[Top.stream])
              IN  /\ stack' = SetTop(
                        IF Enriching(Top.stream, config)
                        THEN [Top EXCEPT !.fpc = "Chunking", !.json = json,
                                         !.record_ids = record_ids,
                                         !.chunks = _divide_chunks(record_ids.keys, limit),
                                         !.chunk_k = 0, !.yields = <<>>, !.rec_i = 0]
                        ELSE [Top EXCEPT !.fpc = "Extracting", !.json = json,
                                         !.yields = IF Top.stream = "organization_id"
                                                    THEN OrgParse(config, records)
                                                    ELSE records,
                                         !.rec_i = 0])
                  /\ log' = Append(log, Event("response", Top.stream, records))
          /\ UNCHANGED failure
    /\ UNCHANGED treeRest

\* parse_response without enrichment yields its next record.
EmitNext ==
    /\ TreeRunning
    /\ Top.fpc = "Extracting"
    /\ Top.rec_i < Len(Top.yields)
    /\ LET record == Top.yields[Top.rec_i + 1]
       IN  /\ stack' = SetTop(Yielded([Top EXCEPT !.rec_i = @ + 1], record, "Extracting"))
           /\ log' = Append(log, Event("emit", Top.stream, record))
    /\ UNCHANGED <<inflight, failure, treeRest>>

\* A caller that goes on to the next record without the sync of a child stream.
DispatchSkipped ==
    /\ TreeRunning
    /\ Top.fpc = "Dispatching"
    /\ Top.todo # <<>>
    /\ stack' = SetTop([Top EXCEPT !.todo = Tail(@)])
    /\ log' = Append(log, Event("invoke", Head(Top.todo), Top.child_context[1]))
    /\ UNCHANGED <<inflight, failure, treeRest>>

\* _sync_children: child_stream.sync(context=child_context) for the next
\* selected child stream; the parent waits for it to return.
DispatchChild ==
    /\ TreeRunning
    /\ Top.fpc = "Dispatching"
    /\ Top.todo # <<>>
    /\ stack' = Append(SetTop([Top EXCEPT !.todo = Tail(@)]),
                       NewFrame(Head(Top.todo), Top.child_context))
    /\ log' = Append(log, Event("invoke", Head(Top.todo), Top.child_context[1]))
    /\ UNCHANGED <<inflight, failure, treeRest>>

\* Every child stream has returned: the generator is resumed.
ChildrenSynced ==
    /\ TreeRunning
    /\ Top.fpc = "Dispatching"
    /\ Top.todo = <<>>
    /\ stack' = SetTop([Top EXCEPT !.fpc = Top.resume])
    /\ UNCHANGED <<inflight, log, failure, treeRest>>

\* parse_response is exhausted: paginator.advance(resp); the invocation
\* returns when the paginator is finished and asks for the next page otherwise.
AdvancePage ==
    /\ TreeRunning
    /\ \/ Top.fpc = "Extracting" /\ Top.rec_i = Len(Top.yields)
       \/ Top.fpc = "Chunking" /\ Top.chunk_k = Len(Top.chunks)
    /\ LET a == advance(Top.paginator, Top.json)
       IN  IF a = <<>>
           THEN failure' = "RuntimeError" /\ UNCHANGED <<stack, log>>
           ELSE IF a[1].finished
           THEN /\ stack' = SubSeq(stack, 1, Len(stack) - 1)
                /\ log' = Append(log, Event("done", Top.stream, Top.context))
                /\ UNCHANGED failure
           ELSE /\ stack' = SetTop([Top EXCEPT !.fpc = "Preparing", !.paginator = a[1]])
                /\ UNCHANGED <<log, failure>>
    /\ UNCHANGED <<inflight, treeRest>>

\* The enrichment takes the next chunk and sends the detail request:
\* self._request(req.prepare()) with organization_id read back from the URL of
\* the list response.
SendDetail ==
    /\ TreeRunning
    /\ Top.fpc = "Chunking"
    /\ Top.chunk_k < Len(Top.chunks)
    /\ LET chunk == Top.chunks[Top.chunk_k + 1]
           params == ("organization_id" :> OrgIdFromUrl(UrlQuery(Top.prepared)))
                     @@ (DetailsParam[Top.stream] :> Join(chunk, ","))
       IN  /\ stack' = SetTop([Top EXCEPT !.fpc = "AwaitDetail", !.chunk_k = @ + 1])
           /\ log' = Append(log, Event("detail_request", Top.stream, params))
    /\ inflight' = inflight + 1
    /\ UNCHANGED <<failure, treeRest>>

\* What validate_response raises for a detail response of an error kind.
DetailError(kind) ==
    Classify([status_code |-> DetailStatus[kind], text |-> "json", headers |-> <<>>])
        \o "APIError"

\* A detail request made through the backoff decorator: the chunk is asked for
\* again after an error.
ReceiveDetailRetried ==
    /\ TreeRunning
    /\ Top.fpc = "AwaitDetail"
    /\ inflight' = inflight - 1
    /\ \E kind \in server.details :
          IF kind \in DOMAIN DetailStatus
          THEN /\ stack' = SetTop([Top EXCEPT !.fpc = "Chunking", !.chunk_k = @ - 1])
               /\ log' = Append(log, Event("detail_response", Top.stream, <<>>))
               /\ UNCHANGED failure
          ELSE LET asked == Split(log[Len(log)].data[DetailsParam[Top.stream]], ",")
                   detail == DetailBody(Top.stream, asked, kind)
               IN  /\ stack' = SetTop([Top EXCEPT !.fpc = "Merging", !.detail = detail,
                                                   !.detail_i = 0])
                   /\ log' = Append(log, Event("detail_response", Top.stream, detail))
                   /\ UNCHANGED failure
    /\ UNCHANGED treeRest

\* The detail response arrives. _request is called outside the backoff
\* decorator here, so what validate_response raises ends the run.
ReceiveDetail ==
    /\ TreeRunning
    /\ Top.fpc = "AwaitDetail"
    /\ inflight' = inflight - 1
    /\ \E kind \in server.details :
          IF kind \in DOMAIN DetailStatus
          THEN /\ failure' = DetailError(kind)
               /\ log' = Append(log, Event("detail_response", Top.stream, <<>>))
               /\ UNCHANGED stack
          ELSE LET asked == Split(log[Len(log)].data[DetailsParam[Top.stream]], ",")
                   detail == DetailBody(Top.stream, asked, kind)
               IN  /\ stack' = SetTop([Top EXCEPT !.fpc = "Merging", !.detail = detail,
                                                   !.detail_i = 0])
                   /\ log' = Append(log, Event("detail_response", Top.stream, detail))
                   /\ UNCHANGED failure
    /\ UNCHANGED treeRest

\* An enrichment that yields a detail record nobody listed as a record of its
\* own.
MergeDetailLenient ==
    /\ TreeRunning
    /\ Top.fpc = "Merging"
    /\ Top.detail_i < Len(Top.detail)
    /\ LET d == Top.detail[Top.detail_i + 1]
           id == d[IdField[Top.stream]]
           merged == IF id \in DOMAIN Top.record_ids.map
                     THEN Merge(Top.record_ids.map[id], d) ELSE d
       IN  /\ stack' = SetTop(Yielded([Top EXCEPT !.detail_i = @ + 1,
                                                  !.record_ids.map =
                                                      (id :> merged) @@ Top.record_ids.map],
                                      merged, "Merging"))
           /\ log' = Append(log, Event("emit", Top.stream, merged))
           /\ UNCHANGED failure
    /\ UNCHANGED <<inflight, treeRest>>

\* The next detail record: the keys its primary record lacks are copied into
\* the primary record, which is then yielded.
MergeDetail ==
    /\ TreeRunning
    /\ Top.fpc = "Merging"
    /\ Top.detail_i < Len(Top.detail)
    /\ LET d == Top.detail[Top.detail_i + 1]
           id == d[IdField[Top.stream]]
       IN  IF id \notin DOMAIN Top.record_ids.map
           THEN failure' = "KeyError" /\ UNCHANGED <<stack, log>>
           ELSE LET merged == Merge(Top.record_ids.map[id], d)
                IN  /\ stack' = SetTop(Yielded([Top EXCEPT !.detail_i = @ + 1,
                                                           !.record_ids.map[id] = merged],
                                               merged, "Merging"))
                    /\ log' = Append(log, Event("emit", Top.stream, merged))
                    /\ UNCHANGED failure
    /\ UNCHANGED <<inflight, treeRest>>

\* The detail records of the batch are used up.
BatchDone ==
    /\ TreeRunning
    /\ Top.fpc = "Merging"
    /\ Top.detail_i = Len(Top.detail)
    /\ stack' = SetTop([Top EXCEPT !.fpc = "Chunking"])
    /\ UNCHANGED <<inflight, log, failure, treeRest>>

NextTree ==
    \/ SendList
    \/ ReceiveList
    \/ EmitNext
    \/ DispatchChild
    \/ ChildrenSynced
    \/ AdvancePage
    \/ SendDetail
    \/ ReceiveDetail
    \/ MergeDetail
    \/ BatchDone

\* The state of a run that is about to start, the provider and the
\* configuration apart.
TreeStart ==
    /\ bookmark = None
    /\ today = [year |-> 2024, month |-> 2, day |-> 10, hour |-> 8, minute |-> 0,
                second |-> 0, microsecond |-> 0, tz |-> <<>>]
    /\ CursorIdle
    /\ pc = "Idle"
    /\ paginator = get_new_paginator
    /\ prepared = <<>>
    /\ tries = 0
    /\ quota_tries = 0
    /\ response = <<>>
    /\ verdict = ""
    /\ slept = <<>>
    /\ rate_limit_alert = FALSE
    /\ rec_i = 0
    /\ emitted = <<>>
    /\ sent = <<>>
    /\ failure = ""
    /\ ids = <<>>
    /\ batches = <<>>
    /\ inflight = 0
    /\ log = <<>>

\* The values of the organization_id setting: absent, a string, an integer,
\* and the identifier of an organization the provider does not list.
Pins == {None, [str |-> <<"1", "1", "1">>], [int |-> 222], [str |-> <<"3", "3", "3">>]}

\* The organizations the provider lists: none, one, two in either order, and
\* one whose identifier is the text None.
OrgLists ==
    {<<>>, <<<<"1", "1", "1">>>>, <<<<"1", "1", "1">>, <<"2", "2", "2">>>>,
     <<<<"2", "2", "2">>, <<"1", "1", "1">>>>,
     <<<<"1", "1", "1">>, <<"N", "o", "n", "e">>>>}

InitTree ==
    /\ RestIdle
    /\ TreeStart
    /\ name = "organization_id"
    /\ context = None
    /\ config \in {[start_date |-> None, reports_start_date |-> None,
                     organization_id |-> pin, use_item_details |-> b] :
                        pin \in Pins, b \in BOOLEAN}
    /\ server \in {[orgs |-> o, npages |-> k, nrecs |-> n, details |-> {"full", "error"},
                     fails |-> f] :
                        o \in OrgLists, k \in 1..MaxTreePages, n \in 0..MaxTreeRecs,
                        f \in BOOLEAN}
    /\ selected = {"organization_id", "journals_id", "journals", "items", "item_details"}
    /\ stack = <<NewFrame("organization_id", None)>>

SpecTree == InitTree /\ [][NextTree]_vars

\* The start_date of an enriched invocation: none, or one that puts
\* last_modified_time into the list requests.
EnrichStartDates == {None, Render(Stamp(2022, 12, 31, 23, 59, 59, 0, <<0>>), 3)}

\* One invocation of the items stream or of the sales_orders stream on its
\* own, with its enrichment flag set or not.
InitEnrich ==
    /\ RestIdle
    /\ TreeStart
    /\ name \in {"items", "sales_orders"}
    /\ context \in {<<[organization_id |-> o]>> : o \in OrgIds}
    /\ config \in {[start_date |-> sd, reports_start_date |-> None,
                     use_item_details |-> b, use_sales_details |-> c] :
                        sd \in EnrichStartDates, b \in BOOLEAN, c \in BOOLEAN}
                   \cup {[start_date |-> None, reports_start_date |-> None]}
    /\ server \in {[orgs |-> <<>>, npages |-> k, nrecs |-> n, details |-> DetailKinds,
                     fails |-> FALSE] :
                        k \in 1..MaxTreePages, n \in 0..2}
                   \cup {[orgs |-> <<>>, npages |-> 1, nrecs |-> MaxBatchRecs,
                          details |-> DetailKinds, fails |-> FALSE]}
    /\ selected = {name}
    /\ stack = <<NewFrame(name, context)>>

NextEnrich ==
    \/ SendList
    \/ ReceiveList
    \/ EmitNext
    \/ ChildrenSynced
    \/ AdvancePage
    \/ SendDetail
    \/ ReceiveDetail
    \/ MergeDetail
    \/ BatchDone

SpecEnrich == InitEnrich /\ [][NextEnrich]_vars

----------------------------------------------------------------------------
(* Rate Tracker over several stream instances: calls of _request, each with  *)
(* the response the provider gives, made by the stream instances of the tap.  *)

MaxCalls == 3

\* The stream instances that make the calls; journals is one of the paced ones.
RateStreams == {"invoices", "journals"}

RateHeaderSets ==
    {<<>>,
     "X-Rate-Limit-Remaining" :> 0,
     "X-Rate-Limit-Remaining" :> 400,
     "X-Rate-Limit-Limit" :> 1000,
     ("X-Rate-Limit-Limit" :> 1000) @@ ("X-Rate-Limit-Remaining" :> 0),
     ("X-Rate-Limit-Limit" :> 1000) @@ ("X-Rate-Limit-Remaining" :> 100),
     ("X-Rate-Limit-Limit" :> 1000) @@ ("X-Rate-Limit-Remaining" :> 600),
     ("X-Rate-Limit-Limit" :> 1000) @@ ("X-Rate-Limit-Remaining" :> 990)}

\* A page with each of the header sets, and a transient error with both headers.
RateResponses ==
    {[status_code |-> 200, text |-> "json", headers |-> h, json |-> [records |-> <<>>]] :
        h \in RateHeaderSets}
    \cup {[status_code |-> 503, text |-> "json", json |-> <<>>,
           headers |-> ("X-Rate-Limit-Limit" :> 1000) @@ ("X-Rate-Limit-Remaining" :> 990)]}

\* The attribute set on the class, so that every instance reads it.
SetAlertShared(flags, s) == [t \in DOMAIN flags |-> TRUE]

\* _request, line 62: self.rate_limit_alert = True, an attribute of the
\* instance; the others go on reading the class attribute, False.
SetAlert(flags, s) == [flags EXCEPT ![s] = TRUE]

\* What one call of _request by the stream nm does with the response resp, in
\* order: validate_response's quota sleep and pacing sleep inside
\* super()._request, then, when it raised nothing, the cooldown and the warning.
RequestEffects(nm, resp, flag) ==
    (IF QuotaExhausted(resp) THEN <<"quota">> ELSE <<>>)
    \o PacingSleep(nm)
    \o (IF Classify(resp) = "Success" /\ HasRateHeaders(resp)
        THEN <<"cooldown">> \o (IF AlertCondition(resp, flag) THEN <<"alert">> ELSE <<>>)
        ELSE <<>>)

Did(effects, what) == \E k \in 1..Len(effects) : effects[k] = what

InitRate ==
    /\ FixedInputs
    /\ ExecIdle
    /\ ids = <<>>
    /\ batches = <<>>
    /\ selected = RateStreams
    /\ stack = <<>>
    /\ inflight = 0
    /\ log = <<>>
    /\ waited = <<>>
    /\ alert_of = [s \in RateStreams |-> FALSE]
    /\ api_url = <<>>

\* One call of _request by the stream instance s.
Request(s) ==
    /\ Len(log) < MaxCalls
    /\ \E resp \in RateResponses :
          LET effects == RequestEffects(s, resp, alert_of[s])
          IN  /\ log' = Append(log, [ev |-> "call", stream |-> s, depth |-> 0,
                                     data |-> [response |-> resp, effects |-> effects,
                                               raised |-> Classify(resp)]])
              /\ alert_of' = IF Did(effects, "alert") THEN SetAlert(alert_of, s) ELSE alert_of
    /\ UNCHANGED <<inputVars, cursorVars, execVars, chunkVars, selected, stack, inflight,
                   waited, api_url>>

NextRate == \E s \in selected : Request(s)

SpecRate == InitRate /\ [][NextRate]_vars

----------------------------------------------------------------------------
(* _prepare_details_request on its own: one call for every params dict drawn *)
(* in InitDetails.                                                           *)

\* A _prepare_details_request that builds the request whatever params holds.
_prepare_details_request_unchecked(url, params, details_param) ==
    <<[method |-> "GET", url |-> url, params |-> params]>>

\* _prepare_details_request: <<>> when it raises ValueError, else <<the request
\* build_prepared_request is given>>.
_prepare_details_request(url, params, details_param) ==
    IF details_param \notin DOMAIN params THEN <<>>
    ELSE <<[method |-> "GET", url |-> url, params |-> params]>>

\* A dict with the key k for every value of vals, and without it.
WithKey(k, vals) == {<<>>} \cup {k :> v : v \in vals}

\* The params dicts a caller may pass: each key there or not, an identifier
\* list of none, one or two identifiers, or None.
DetailsParams ==
    {org @@ items @@ orders :
        org \in WithKey("organization_id", OrgIds),
        items \in WithKey("item_ids", {None, <<"0", "0", "1">>,
                                       <<"0", "0", "1", ",", "0", "0", "2">>}),
        orders \in WithKey("salesorder_ids", {None, <<"0", "0", "1">>})}

InitDetails ==
    /\ name \in DOMAIN DetailsParam
    /\ config = [start_date |-> None, reports_start_date |-> None]
    /\ bookmark = None
    /\ today = [year |-> 2024, month |-> 2, day |-> 10, hour |-> 8, minute |-> 0,
                second |-> 0, microsecond |-> 0, tz |-> <<>>]
    /\ context = <<[organization_id |-> <<"1", "1", "1">>]>>
    /\ cpc = "resolved"
    /\ url_params \in DetailsParams
    /\ resolved = <<>>
    /\ ExecIdle
    /\ PartsIdle

\* One call of _prepare_details_request(url, params, details_param) with the
\* stream's identifier parameter.
PrepareDetailsRequest ==
    /\ pc = "Idle"
    /\ LET req == _prepare_details_request("details", url_params, DetailsParam[name])
       IN  IF req = <<>>
           THEN pc' = "Failed" /\ failure' = "ValueError" /\ UNCHANGED prepared
           ELSE pc' = "Prepared" /\ prepared' = req[1].params /\ UNCHANGED failure
    /\ UNCHANGED <<server, paginator, tries, quota_tries, response, verdict, slept,
                   rate_limit_alert, rec_i, emitted, sent, inputVars, cursorVars, chunkVars,
                   treeVars, restVars>>

NextDetails == PrepareDetailsRequest

SpecDetails == InitDetails /\ [][NextDetails]_vars

----------------------------------------------------------------------------
(* Cursor Resolver properties *)

StdBase == IF bookmark # None THEN bookmark ELSE config["start_date"]

\* C8: for a standard incremental stream the base of the cursor is the bookmark
\* when there is one and the configured start_date otherwise; the request has
\* no last_modified_time when both are absent and has the one resolved from
\* that base whenever the base exists.
C8_CursorBase ==
    (cpc = "resolved" /\ name \notin ReportStreams) =>
        /\ StdBase = None => "last_modified_time" \notin DOMAIN url_params
        /\ StdBase # None =>
              /\ _infer_date(StdBase) # <<>>
              /\ "last_modified_time" \in DOMAIN url_params
              /\ url_params["last_modified_time"]
                    = WireFormat(ResolveStart(_infer_date(StdBase)[1]))

\* A bookmark and a different, parseable start_date are both present and the
\* request was built.
C8_Witness ==
    /\ cpc = "resolved"
    /\ name = "invoices"
    /\ bookmark \in BaseStrings
    /\ config["start_date"] \notin {None, Garbage}
    /\ "last_modified_time" \in DOMAIN url_params
    /\ url_params["last_modified_time"]
          # WireFormat(ResolveStart(_infer_date(config["start_date"])[1]))

\* The proleptic Gregorian ordinal of dt's date, counted from 2000-01-01
\* (ordinal 730120) to stay within TLC's integers.
Ordinal(dt) ==
    LET y == dt.year - 1
    IN  y * 365 + (y \div 4) - (y \div 100) + (y \div 400)
        + ((367 * dt.month - 362) \div 12)
        - (IF dt.month <= 2 THEN 0 ELSE IF IsLeap(dt.year) THEN 1 ELSE 2)
        + dt.day - 730120

\* Whole seconds of local time since 2000-01-01T00:00:00.
WholeSeconds(dt) == Ordinal(dt) * 86400 + dt.hour * 3600 + dt.minute * 60 + dt.second

\* C9: the resolved lower bound is the base instant with exactly one second
\* added to its whole seconds and its sub-second part set to zero, whatever
\* carries into the minute, hour, day, month or year the addition causes; the
\* bookmark 2023-01-01T00:00:00Z resolves to 2023-01-01T00:00:01 at UTC.
C9_OneSecondLater ==
    (cpc = "resolved" /\ resolved # <<>>) =>
        /\ \A dt \in Instants, k \in Layouts :
              StdBase = Render(dt, k) =>
                 /\ WholeSeconds(resolved[1]) = WholeSeconds(Kept(dt, k)) + 1
                 /\ resolved[1].microsecond = 0
                 /\ resolved[1].tz = Kept(dt, k).tz
                 /\ ValidDate(resolved[1])
        /\ StdBase = Render(Stamp(2023, 1, 1, 0, 0, 0, 0, <<0>>), 3)
              => resolved[1] = Stamp(2023, 1, 1, 0, 0, 1, 0, <<0>>)

\* A base at 23:59:59.999999 on the last day of a year was resolved.
C9_Witness ==
    /\ cpc = "resolved"
    /\ bookmark = Render(Stamp(2023, 12, 31, 23, 59, 59, 999999, <<0>>), 1)
    /\ resolved = <<Stamp(2024, 1, 1, 0, 0, 0, 0, <<0>>)>>

\* The ISO-8601 rendering of dt with the colon of its UTC offset removed and
\* every other separator kept.
IsoWithoutOffsetColon(dt) ==
    LET m == IF dt.tz = <<>> THEN 0 ELSE IF dt.tz[1] < 0 THEN -dt.tz[1] ELSE dt.tz[1]
    IN  Pad(dt.year, 4) \o <<"-">> \o Pad(dt.month, 2) \o <<"-">> \o Pad(dt.day, 2)
        \o <<"T">> \o Pad(dt.hour, 2) \o <<":">> \o Pad(dt.minute, 2) \o <<":">>
        \o Pad(dt.second, 2)
        \o (IF dt.tz = <<>> THEN <<>>
            ELSE <<IF dt.tz[1] < 0 THEN "-" ELSE "+">> \o Pad(m \div 60, 2) \o Pad(m % 60, 2))

\* C10: for every base any of the six layouts accepts, with or without a UTC
\* offset, the last_modified_time sent is the ISO-8601 rendering of the
\* resolved instant with only the colon inside the UTC offset removed.
C10_OnlyOffsetColonRemoved ==
    (cpc = "resolved" /\ "last_modified_time" \in DOMAIN url_params) =>
        url_params["last_modified_time"] = IsoWithoutOffsetColon(resolved[1])

ReportKeys == {"page", "organization_id", "from_date", "to_date", "cash_based"}

\* C11: the query of a report stream has only page, organization_id, from_date,
\* to_date and, for the cash-based variants only, cash_based = true; it has no
\* last_modified_time and no account_id; the query of every other stream has no
\* from_date, to_date or cash_based.
C11_ReportParams ==
    cpc = "resolved" =>
        IF name \in ReportStreams
        THEN /\ DOMAIN url_params \subseteq ReportKeys
             /\ {"from_date", "to_date"} \subseteq DOMAIN url_params
             /\ name \in CashStreams =>
                   ("cash_based" \in DOMAIN url_params /\ url_params["cash_based"] = TRUE)
             /\ name \notin CashStreams => "cash_based" \notin DOMAIN url_params
        ELSE DOMAIN url_params \cap {"from_date", "to_date", "cash_based"} = {}

\* A cash-based report was resolved with a bookmark and a context that has an
\* account_id, both of which a standard stream would have sent.
C11_Witness ==
    /\ cpc = "resolved"
    /\ name = "report_account_transactions_cash_based"
    /\ bookmark \in BaseStrings
    /\ "account_id" \in DOMAIN context[1]
    /\ DOMAIN url_params = ReportKeys

\* The value is there and one of the layouts of _infer_date reads it.
Parseable(date) == date # None /\ _infer_date(date) # <<>>

\* C39: for a report stream with no reports_start_date, no start_date and no
\* bookmark, get_url_params ends in an error and builds no parameters, so no
\* request without from_date is prepared; with at least one of the three
\* there and parseable it returns parameters that have from_date.
C39_ReportFromDate ==
    (name \in ReportStreams /\ cpc # "start") =>
        /\ (config["reports_start_date"] = None /\ config["start_date"] = None
            /\ bookmark = None) =>
              (cpc = "error" /\ url_params = <<>>)
        /\ (\/ Parseable(config["reports_start_date"])
            \/ Parseable(config["start_date"])
            \/ Parseable(bookmark)) =>
              (cpc = "resolved" /\ "from_date" \in DOMAIN url_params)

\* The base of a report's from_date.
RepBase ==
    IF config["reports_start_date"] # None THEN config["reports_start_date"] ELSE StdBase

FirstOfNextMonth(now) ==
    IF now.month = 12 THEN Stamp(now.year + 1, 1, 1, 0, 0, 0, 0, <<>>)
    ELSE Stamp(now.year, now.month + 1, 1, 0, 0, 0, 0, <<>>)

\* C12: a report's from_date is the date part (YYYY-MM-DD) of reports_start_date
\* when that is configured and of the standard cursor base otherwise, with no
\* second added; its to_date is the last day of the month of 'now': the day
\* before the first of the next month, in the month and year of 'now', and not
\* before 'now'.
C12_ReportWindow ==
    (cpc = "resolved" /\ name \in ReportStreams) =>
        /\ url_params["from_date"] = SubSeq(RepBase, 1, 10)
        /\ LET to_date == url_params["to_date"]
               last == Stamp(today.year, today.month, NumAt(to_date, 9, 2), 0, 0, 0, 0, <<>>)
           IN  /\ Len(to_date) = 10
               /\ to_date = strftime_ymd(last)
               /\ Ordinal(last) + 1 = Ordinal(FirstOfNextMonth(today))
               /\ Ordinal(last) >= Ordinal(today)

\* A report without reports_start_date, with a bookmark in the last second of
\* 2023, was resolved in February 2024.
C12_Witness ==
    /\ cpc = "resolved"
    /\ name = "profit_and_loss"
    /\ config["reports_start_date"] = None
    /\ bookmark = Render(Stamp(2023, 12, 31, 23, 59, 59, 999999, <<0>>), 1)
    /\ today.year = 2024 /\ today.month = 2
    /\ url_params["from_date"] = <<"2", "0", "2", "3", "-", "1", "2", "-", "3", "1">>
    /\ url_params["to_date"] = <<"2", "0", "2", "4", "-", "0", "2", "-", "2", "9">>

----------------------------------------------------------------------------
(* Detail Enrichment Batcher properties *)

RECURSIVE Flatten(_)
Flatten(ss) == IF ss = <<>> THEN <<>> ELSE Head(ss) \o Flatten(Tail(ss))

\* C13: the batches of n identifiers are consecutive slices of the list, each
\* with 1..100 elements and all but the last with exactly 100; there are
\* ceil(n/100) of them, none for n = 0; their concatenation is the list itself;
\* 250 identifiers give batches of 100, 100 and 50.
C13_Chunks ==
    batches # <<>> =>
        LET b == batches[1]
            n == Len(ids)
        IN  /\ Len(b) = (n + 99) \div 100
            /\ \A k \in 1..Len(b) :
                  /\ Len(b[k]) \in 1..100
                  /\ k < Len(b) => Len(b[k]) = 100
                  /\ \A j \in 1..Len(b[k]) : b[k][j] = ids[(k - 1) * 100 + j]
            /\ Flatten(b) = ids
            /\ n = 250 => [k \in 1..Len(b) |-> Len(b[k])] = <<100, 100, 50>>

\* 250 identifiers were divided into three batches.
C13_Witness ==
    /\ batches # <<>>
    /\ Len(ids) = 250
    /\ Len(batches[1]) = 3
    /\ Len(batches[1][3]) = 50
    /\ batches[1][3][50] = <<"2", "5", "0">>

\* The running invocation merges its next detail record in this step.
MergeStep ==
    /\ stack # <<>>
    /\ Len(stack') = Len(stack)
    /\ Top.fpc = "Merging"
    /\ stack'[Len(stack)].detail_i = Top.detail_i + 1

\* The record of the list response with identifier id.
Listed(f, id) ==
    LET records == f.json.records
    IN  records[CHOOSE i \in 1..Len(records) : records[i][IdField[f.stream]] = id]

\* C14: when a detail record d is merged into its primary record p, the merged
\* record has the keys of p and of d; every key of p keeps the value p had, a
\* null value included, so every field of the list response keeps the list's
\* value; every key only d has takes d's value; merging d again changes
\* nothing; and the merged record is the one that is emitted.
C14_MergeKeepsPrimary ==
    [][MergeStep =>
          LET d == Top.detail[Top.detail_i + 1]
              id == d[IdField[Top.stream]]
              p == Top.record_ids.map[id]
              m == stack'[Len(stack)].record_ids.map[id]
          IN  /\ DOMAIN m = DOMAIN p \cup DOMAIN d
              /\ \A k \in DOMAIN p : m[k] = p[k]
              /\ \A k \in DOMAIN d \ DOMAIN p : m[k] = d[k]
              /\ \A k \in DOMAIN Listed(Top, id) : m[k] = Listed(Top, id)[k]
              /\ Merge(m, d) = m
              /\ log'[Len(log')].ev = "emit"
              /\ log'[Len(log')].data = m]_vars

\* A record whose name differs in the detail and whose unit is null in the list
\* was merged with its detail and emitted.
C14_Witness ==
    /\ log # <<>>
    /\ log[Len(log)].ev = "emit"
    /\ log[Len(log)].stream = "items"
    /\ log[Len(log)].data = [item_id |-> <<"0", "0", "1">>, name |-> <<"A">>, unit |-> None,
                             sku |-> <<"X">>]

\* The index of the last list response in the log, 0 when there is none.
LastListResponse ==
    IF \E i \in 1..Len(log) : log[i].ev = "response"
    THEN CHOOSE i \in 1..Len(log) :
            log[i].ev = "response" /\ \A j \in (i + 1)..Len(log) : log[j].ev # "response"
    ELSE 0

\* The positions in the log of what was done with the current page.
PageIndices == (LastListResponse + 1)..Len(log)

\* The records emitted for the current page, in order.
PageEmits ==
    SelectSeq(SubSeq(log, LastListResponse + 1, Len(log)), LAMBDA e : e.ev = "emit")

\* The detail endpoint returned a record for id in a response to the current page.
Returned(field, id) ==
    \E j \in PageIndices :
        /\ log[j].ev = "detail_response"
        /\ \E n \in 1..Len(log[j].data) : log[j].data[n][field] = id

\* The enrichment of the current page is through: every batch was requested
\* and its response used up.
EnrichedPageDone ==
    /\ stack # <<>>
    /\ failure = ""
    /\ Enriching(Top.stream, config)
    /\ Top.fpc = "Chunking"
    /\ Top.chunk_k = Len(Top.chunks)

\* C15: with enrichment enabled, every record of the list response is emitted,
\* and one whose identifier the detail endpoint did not return is emitted with
\* its fields exactly as listed; the run does not fail for a missing identifier
\* (it fails only for an error status or for a detail record nobody asked for).
C15_OmittedStillEmitted ==
    /\ EnrichedPageDone =>
          \A i \in 1..Len(Top.json.records) :
              LET r == Top.json.records[i]
                  field == IdField[Top.stream]
              IN  \E k \in 1..Len(PageEmits) :
                      /\ PageEmits[k].data[field] = r[field]
                      /\ ~Returned(field, r[field]) => PageEmits[k].data = r
    /\ failure \in {"", "RetriableAPIError", "KeyError"}

\* C16: with enrichment enabled, the records emitted for a list page have the
\* identifiers of the list response, in the order of the list response, each
\* once, whatever the detail endpoint returned.
C16_ListOrderKept ==
    EnrichedPageDone =>
        [k \in 1..Len(PageEmits) |-> PageEmits[k].data[IdField[Top.stream]]]
            = [i \in 1..Len(Top.json.records) |-> Top.json.records[i][IdField[Top.stream]]]

\* C17: with enrichment enabled, a record is emitted only after the detail
\* response of the batch that holds its identifier has arrived; it then has
\* every field the detail endpoint returned for it; and it is not modified
\* after it was emitted.
C17_NoPartialRecord ==
    (stack # <<>> /\ Enriching(Top.stream, config)) =>
        \A i \in PageIndices :
            log[i].ev = "emit" =>
                LET field == IdField[Top.stream]
                    id == log[i].data[field]
                IN  /\ \E j \in PageIndices :
                          /\ j < i
                          /\ log[j].ev = "detail_response"
                          /\ log[j - 1].ev = "detail_request"
                          /\ \E n \in 1..Len(Split(log[j - 1].data[DetailsParam[Top.stream]], ",")) :
                                Split(log[j - 1].data[DetailsParam[Top.stream]], ",")[n] = id
                    /\ \A j \in PageIndices :
                          log[j].ev = "detail_response" =>
                              \A n \in 1..Len(log[j].data) :
                                  log[j].data[n][field] = id =>
                                      DOMAIN log[j].data[n] \subseteq DOMAIN log[i].data
                    /\ id \in DOMAIN Top.record_ids.map => Top.record_ids.map[id] = log[i].data

\* The toggle of the running stream is in the configuration and true.
ToggleSet ==
    \/ Top.stream = "items" /\ "use_item_details" \in DOMAIN config
          /\ config["use_item_details"]
    \/ Top.stream = "sales_orders" /\ "use_sales_details" \in DOMAIN config
          /\ config["use_sales_details"]

Events(kind) == SelectSeq(log, LAMBDA e : e.ev = kind)

\* The records of every list response so far, in order.
AllListed == Flatten([k \in 1..Len(Events("response")) |-> Events("response")[k].data])

\* The detail requests sent for the current page, in order.
PageDetailRequests ==
    SelectSeq(SubSeq(log, LastListResponse + 1, Len(log)), LAMBDA e : e.ev = "detail_request")

\* The identifiers of the current page, in the order listed (the provider lists
\* no identifier twice).
PageIds ==
    LET records == log[LastListResponse].data
    IN  [i \in 1..Len(records) |-> records[i][IdField[Top.stream]]]

BatchesDue == (Len(PageIds) + 99) \div 100

\* Identifiers 100(k-1)+1 .. 100k of the page, joined by commas.
BatchParam(k) ==
    Join(SubSeq(PageIds, 100 * (k - 1) + 1,
                IF 100 * k < Len(PageIds) THEN 100 * k ELSE Len(PageIds)), ",")

\* C30: with the stream's toggle unset or false no detail request is sent and
\* the records emitted are the records of the list responses, unchanged and in
\* order; with the toggle set, a list page of n identifiers that is worked
\* through without an error causes ceil(n/100) detail requests (none for an
\* empty page), the k-th carrying the k-th hundred of identifiers joined by
\* commas and the organization of the list request.
C30_EnrichmentToggle ==
    (stack # <<>> /\ LastListResponse > 0) =>
        IF ~ToggleSet
        THEN /\ Events("detail_request") = <<>>
             /\ Len(Events("emit")) <= Len(AllListed)
             /\ \A k \in 1..Len(Events("emit")) : Events("emit")[k].data = AllListed[k]
             /\ log[Len(log)].ev = "request" => Len(Events("emit")) = Len(AllListed)
        ELSE /\ Len(PageDetailRequests) <= BatchesDue
             /\ \A k \in 1..Len(PageDetailRequests) :
                   /\ PageDetailRequests[k].data[DetailsParam[Top.stream]] = BatchParam(k)
                   /\ PageDetailRequests[k].data["organization_id"]
                         = Top.context[1]["organization_id"]
             /\ EnrichedPageDone => Len(PageDetailRequests) = BatchesDue

\* A page of 101 items, toggle set, worked through with two detail requests,
\* the second for the one identifier left.
C30_Witness ==
    /\ EnrichedPageDone
    /\ Top.stream = "items"
    /\ Len(PageIds) = 101
    /\ Len(PageDetailRequests) = 2
    /\ PageDetailRequests[2].data["item_ids"] = <<"1", "0", "1">>

\* sales_orders ran with use_sales_details missing from the configuration:
\* its two listed records were emitted and the second page was asked for.
C30_WitnessUnset ==
    /\ stack # <<>>
    /\ Top.stream = "sales_orders"
    /\ "use_sales_details" \notin DOMAIN config
    /\ Len(Events("emit")) = 2
    /\ Len(Events("request")) = 2

\* The identifiers a detail request asks for.
Asked(e) == Split(e.data[DetailsParam[e.stream]], ",")

\* The run ended on the response to a detail request.
DetailFailed ==
    /\ failure \in {"RetriableAPIError", "FatalAPIError"}
    /\ log # <<>>
    /\ log[Len(log)].ev = "detail_response"

\* C34: a detail request is made outside the backoff decorator: no batch of a
\* page is asked for twice; a Retriable or Fatal answer to it is not retried
\* but ends the run there, so that the records emitted for the page are those
\* of the batches before it and nothing is requested or emitted afterwards.
C34_DetailRequestOnce ==
    /\ []((stack # <<>> /\ LastListResponse > 0 /\ ToggleSet) =>
            LET requests == PageDetailRequests
                emits == PageEmits
                earlier == UNION {{Asked(requests[j])[n] : n \in 1..Len(Asked(requests[j]))} :
                                     j \in 1..(Len(requests) - 1)}
            IN  /\ \A a \in 1..Len(requests), b \in 1..Len(requests) :
                      a # b => requests[a].data # requests[b].data
                /\ failure \in {"RetriableAPIError", "FatalAPIError"} => DetailFailed
                /\ DetailFailed =>
                      /\ log[Len(log) - 1].ev = "detail_request"
                      /\ \A k \in 1..Len(emits) :
                            emits[k].data[IdField[Top.stream]] \in earlier)
    /\ [][failure = ""]_vars

\* Of a page of 101 items the first hundred were emitted and the request for
\* the second batch was answered 404.
C34_Witness ==
    /\ DetailFailed
    /\ failure = "FatalAPIError"
    /\ Len(PageDetailRequests) = 2
    /\ Len(PageEmits) = 100

\* The identifiers listed on the page the running invocation works on.
PageIdSet ==
    {Top.json.records[n][IdField[Top.stream]] : n \in 1..Len(Top.json.records)}

\* The next detail record to merge is one whose identifier the page lacks.
StrangerNext ==
    /\ TreeRunning
    /\ Top.fpc = "Merging"
    /\ Top.detail_i < Len(Top.detail)
    /\ Top.detail[Top.detail_i + 1][IdField[Top.stream]] \notin PageIdSet

\* C35: with enrichment enabled every record emitted for a page has the
\* identifier of one of the records listed on that page; a detail record with
\* another identifier is not emitted: the lookup of its primary record raises
\* KeyError, which ends the run, and that is the only way to a KeyError.
C35_OnlyListedEmitted ==
    /\ []((stack # <<>> /\ LastListResponse > 0 /\ ToggleSet) =>
            LET listed == PageIdSet
                emits == PageEmits
            IN  /\ \A k \in 1..Len(emits) : emits[k].data[IdField[Top.stream]] \in listed
                /\ failure = "KeyError" =>
                      Top.detail[Top.detail_i + 1][IdField[Top.stream]] \notin listed)
    /\ [][StrangerNext => (failure' = "KeyError" /\ log' = log)]_vars

\* The detail endpoint answered a batch of sales orders with order 999.
C35_Witness ==
    /\ failure = "KeyError"
    /\ Top.stream = "sales_orders"
    /\ Top.detail[Top.detail_i + 1]["salesorder_id"] = <<"9", "9", "9">>
    /\ PageEmits = <<>>

\* The last list request before position i of the log.
ListRequestBefore(i) ==
    log[CHOOSE j \in 1..(i - 1) :
            log[j].ev = "request" /\ \A m \in (j + 1)..(i - 1) : log[m].ev # "request"]

\* C36: every detail request carries the organization_id of the list request
\* whose response it enriches, which is the organization_id of the
\* invocation's context, whether the list request has a last_modified_time
\* parameter or not and whatever its page.
C36_SameOrganization ==
    \A i \in 1..Len(log) :
        log[i].ev = "detail_request" =>
            /\ log[i].data["organization_id"] = ListRequestBefore(i).data["organization_id"]
            /\ log[i].data["organization_id"] = context[1]["organization_id"]

\* A detail request for the second page of organization 222, the list request
\* carrying last_modified_time.
C36_Witness ==
    \E i \in 1..Len(log) :
        /\ log[i].ev = "detail_request"
        /\ log[i].data["organization_id"] = <<"2", "2", "2">>
        /\ "last_modified_time" \in DOMAIN ListRequestBefore(i).data
        /\ ListRequestBefore(i).data["page"] = 2

----------------------------------------------------------------------------
(* Stream tree properties *)

\* The text of the configured pin.
PinText ==
    LET pin == config["organization_id"]
    IN  IF "int" \in DOMAIN pin THEN Pad(pin.int, 3) ELSE pin.str

OrgEmits == SelectSeq(log, LAMBDA e : e.ev = "emit" /\ e.stream = "organization_id")

\* What a request, or the start of a child stream, carries as organization_id.
CarriedOrg(e) == e.data["organization_id"]

SubtreeEvents ==
    {i \in 1..Len(log) :
        \/ log[i].ev = "invoke"
        \/ log[i].depth >= 2 /\ log[i].ev \in {"request", "detail_request"}}

\* C18: with the organization_id pin configured, the organization stream
\* emits only records whose organization_id is the pin written as a string,
\* and at most one in a run; child streams are started, and requests below the
\* root are sent, for that organization only; when the provider lists no such
\* organization, nothing is emitted and no child stream is started.
C18_PinnedOrganization ==
    config["organization_id"] # None =>
        /\ \A k \in 1..Len(OrgEmits) : OrgEmits[k].data["organization_id"] = PinText
        /\ Len(OrgEmits) <= 1
        /\ \A i \in SubtreeEvents : CarriedOrg(log[i]) = PinText
        /\ (\A n \in 1..Len(server.orgs) : server.orgs[n] # PinText) =>
              \A i \in 1..Len(log) : log[i].depth = 1 /\ log[i].ev \in {"request", "response", "done"}

\* A run with the integer pin 222 over the organizations 111 and 222 is
\* through: one organization was emitted and its child streams have run.
C18_Witness ==
    /\ config["organization_id"] = [int |-> 222]
    /\ server.orgs = << <<"1", "1", "1">>, <<"2", "2", "2">> >>
    /\ stack = <<>>
    /\ failure = ""
    /\ Len(OrgEmits) = 1
    /\ \E i \in 1..Len(log) : log[i].ev = "request" /\ log[i].depth = 3

\* C37: without a pin (the setting absent or null) the organization stream
\* emits the organization records of the response in response order, each
\* once, whatever their identifiers, all of them by the time the run is
\* through.
C37_UnpinnedEmitsOnce ==
    config["organization_id"] = None =>
        /\ Len(OrgEmits) <= Len(server.orgs)
        /\ \A k \in 1..Len(OrgEmits) :
              k <= Len(server.orgs) => OrgEmits[k].data["organization_id"] = server.orgs[k]
        /\ (stack = <<>> /\ failure = "") => Len(OrgEmits) = Len(server.orgs)

\* The last record emitted at depth d before position i of the log.
LastEmitBefore(i, d) ==
    log[CHOOSE j \in 1..(i - 1) :
           /\ log[j].ev = "emit" /\ log[j].depth = d
           /\ \A k \in (j + 1)..(i - 1) : ~(log[k].ev = "emit" /\ log[k].depth = d)]

\* C19: the context a child stream is started with has the parent record's
\* identifying field, with the record's value, and organization_id; below an
\* organization record with identifier X every child context, every list
\* request and every detail request carries organization_id = X.
C19_ContextPropagation ==
    \A i \in SubtreeEvents :
        /\ CarriedOrg(log[i]) = LastEmitBefore(i, 1).data["organization_id"]
        /\ log[i].ev = "invoke" =>
              LET parent == LastEmitBefore(i, log[i].depth)
                  field == IdField[parent.stream]
              IN  /\ parent.stream = parent_stream_type[log[i].stream]
                  /\ DOMAIN log[i].data = {field, "organization_id"}
                  /\ log[i].data[field] = parent.data[field]

\* Below the second organization, 222, the journals stream sent a request at
\* depth 3 and the enrichment of items sent a detail request.
C19_Witness ==
    /\ Len(OrgEmits) = 2
    /\ \E i \in 1..Len(log) :
          /\ log[i].ev = "request" /\ log[i].stream = "journals" /\ log[i].depth = 3
          /\ CarriedOrg(log[i]) = <<"2", "2", "2">>
    /\ \E i \in 1..Len(log) :
          /\ log[i].ev = "detail_request"
          /\ CarriedOrg(log[i]) = <<"2", "2", "2">>

\* C20: at most one request is in flight, and a request is followed by its
\* response before anything else happens; after a stream emits a record,
\* every selected child stream is run with that record's context and returns
\* before the stream, or any stream above it, emits another record or sends
\* another request.
C20_DepthFirst ==
    /\ inflight \in {0, 1}
    /\ \A i \in 1..Len(log) :
          log[i].ev \in {"request", "detail_request"} =>
              /\ i = Len(log) => inflight = 1
              /\ i < Len(log) => log[i + 1].ev \in {"response", "detail_response"}
    /\ \A i \in 1..Len(log), j \in 1..Len(log) :
          (/\ i < j
           /\ log[i].ev = "emit"
           /\ log[j].ev \in {"emit", "request", "detail_request"}
           /\ log[j].depth <= log[i].depth) =>
              \A c \in {s \in selected : parent_stream_type[s] = log[i].stream} :
                  \E k \in (i + 1)..(j - 1) :
                      /\ log[k].ev = "done"
                      /\ log[k].stream = c
                      /\ log[k].depth = log[i].depth + 1
                      /\ log[k].data[1][IdField[log[i].stream]]
                            = log[i].data[IdField[log[i].stream]]

\* An enriched item was emitted, its item_details child ran and returned, and
\* the items stream emitted its next record.
C20_Witness ==
    /\ inflight = 0
    /\ \E i \in 1..Len(log), k \in 1..Len(log), j \in 1..Len(log) :
          /\ i < k /\ k < j
          /\ log[i].ev = "emit" /\ log[i].stream = "items" /\ "sku" \in DOMAIN log[i].data
          /\ log[k].ev = "done" /\ log[k].stream = "item_details"
          /\ log[j].ev = "emit" /\ log[j].stream = "items" /\ log[j].depth = log[i].depth

\* min(5 * 4^n, 180)
NominalWait(n) == IF 5 * (4 ^ n) < 180 THEN 5 * (4 ^ n) ELSE 180

\* C27: the wait before the n-th retry of a request, n = 0, 1, 2, ..., is
\* min(5 * 4^n, 180) seconds: the waits never decrease, never exceed 180 and
\* are 180 from the fourth retry on; a request is attempted at most 10 times,
\* after 9 waits, and the run then fails with the Retriable error of the 10th
\* attempt.
C27_RetryWaits ==
    /\ \A n \in 1..Len(waited) :
          /\ waited[n] = NominalWait(n - 1)
          /\ waited[n] <= 180
          /\ n > 1 => waited[n - 1] <= waited[n]
          /\ n >= 4 => waited[n] = 180
    /\ tries <= 10
    /\ Len(waited) <= 9
    /\ pc \in {"Validating", "QuotaSleeping", "Classifying", "Backoff"} => Len(waited) = tries - 1
    /\ failure = "RetriableAPIError" =>
          (tries = 10 /\ Len(waited) = 9 /\ verdict = "Retriable" /\ pc = "Failed")

\* The 10th attempt of a request failed after the waits 5, 20, 80 and six
\* times 180.
C27_Witness ==
    /\ failure = "RetriableAPIError"
    /\ waited = <<5, 20, 80, 180, 180, 180, 180, 180, 180>>

\* The accounts-server value url_base reads.
ConfiguredServer ==
    IF "accounts-server" \in DOMAIN config THEN config["accounts-server"]
    ELSE <<"h", "t", "t", "p", "s", ":", "/", "/", "a", "c", "c", "o", "u", "n", "t", "s", ".", "z", "o", "h", "o", ".", "c", "o", "m">>

\* The value ends in the suffix d.
HasSuffix(url, d) ==
    Len(url) >= Len(d) /\ \A k \in 1..Len(d) : url[Len(url) - Len(d) + k] = d[k]

\* The items of the table whose suffix the configured value ends in.
Matches == {k \in 1..Len(domain_mapping) : HasSuffix(ConfiguredServer, domain_mapping[k].domain)}

\* C28: an accounts-server value ending in one of the eight suffixes selects
\* that suffix's host followed by v3/ (so no value selects one host while
\* ending in the suffix of another: .com.au never selects the .com host); a
\* missing value, or one ending in none of the suffixes, selects the .com host.
C28_RegionalHost ==
    api_url # <<>> =>
        /\ \A k \in Matches : api_url[1] = domain_mapping[k].base_api_url \o "v3/"
        /\ Matches = {} => api_url[1] = "https://www.zohoapis.com/books/v3/"

\* https://accounts.zoho.com.au selected the Australian host.
C28_Witness ==
    /\ "accounts-server" \in DOMAIN config
    /\ config["accounts-server"] = <<"h", "t", "t", "p", "s", ":", "/", "/", "a", "c", "c", "o", "u", "n", "t", "s", ".", "z", "o", "h", "o", ".", "c", "o", "m", ".", "a", "u">>
    /\ api_url = <<"https://www.zohoapis.com.au/books/v3/">>

\* C38: the API host url_base selects is the host of the region of the account
\* server the authenticator asks for the token, for every configuration, one
\* that names the account server only under uri included.
C38_HostOfTokenRegion ==
    (api_url # <<>> /\ prepared # <<>>) =>
        api_url[1] = UrlBaseFrom(prepared.account_server, 1)

\* C29: _prepare_details_request called with params that lack the identifier
\* parameter raises ValueError at once: no request is built or sent, nothing is
\* classified Retriable and nothing is tried or waited for; with the parameter
\* there (whatever its value) the request is built from the params given.
C29_MissingDetailsParam ==
    pc # "Idle" =>
        IF DetailsParam[name] \notin DOMAIN url_params
        THEN /\ pc = "Failed"
             /\ failure = "ValueError"
             /\ prepared = <<>>
             /\ sent = <<>> /\ inflight = 0
             /\ verdict = "" /\ tries = 0 /\ waited = <<>>
        ELSE /\ pc = "Prepared"
             /\ failure = ""
             /\ prepared = url_params

\* The sales_orders stream was given item_ids but no salesorder_ids, and the
\* call raised.
C29_Witness ==
    /\ name = "sales_orders"
    /\ "item_ids" \in DOMAIN url_params
    /\ "salesorder_ids" \notin DOMAIN url_params
    /\ failure = "ValueError"

----------------------------------------------------------------------------
(* Rate Tracker properties *)

\* The calls in which the stream instance s logged the warning.
AlertCalls(s) == {i \in 1..Len(log) : log[i].stream = s /\ Did(log[i].data.effects, "alert")}

\* The response of call i passed validate_response with both headers, fewer
\* than 500 requests of the limit used.
AlertDue(i) ==
    LET resp == log[i].data.response
    IN  /\ log[i].data.raised = "Success"
        /\ "X-Rate-Limit-Limit" \in DOMAIN resp.headers
        /\ "X-Rate-Limit-Remaining" \in DOMAIN resp.headers
        /\ resp.headers["X-Rate-Limit-Limit"] - resp.headers["X-Rate-Limit-Remaining"] < 500

\* C23: over any sequence of responses a stream instance logs the warning at
\* most once; its rate_limit_alert is set from that call on and never cleared;
\* and whether an instance logs it depends on its own earlier calls only, never
\* on the warning of another instance.
C23_AlertOncePerInstance ==
    /\ \A s \in selected :
          /\ Cardinality(AlertCalls(s)) <= 1
          /\ alert_of[s] <=> AlertCalls(s) # {}
    /\ \A i \in 1..Len(log) :
          i \in AlertCalls(log[i].stream)
              <=> (AlertDue(i) /\ \A j \in 1..(i - 1) : j \notin AlertCalls(log[i].stream))

\* invoices logged the warning, met the condition again without logging it,
\* and journals then logged its own.
C23_Witness ==
    /\ Len(log) = 3
    /\ log[1].stream = "invoices" /\ 1 \in AlertCalls("invoices")
    /\ log[2].stream = "invoices" /\ AlertDue(2) /\ 2 \notin AlertCalls("invoices")
    /\ log[3].stream = "journals" /\ 3 \in AlertCalls("journals")

\* C24: the warning is logged only for a response that reports fewer than 500
\* requests remaining, and never for one whose remaining quota is close to the
\* limit.
C24_AlertNearExhaustion ==
    \A i \in 1..Len(log) :
        Did(log[i].data.effects, "alert") =>
            log[i].data.response.headers["X-Rate-Limit-Remaining"] < 500

\* The response of call i has both rate-limit headers.
BothHeaders(i) ==
    {"X-Rate-Limit-Limit", "X-Rate-Limit-Remaining"} \subseteq DOMAIN log[i].data.response.headers

\* C25 as claimed: a response that lacks either header causes no cooldown, no
\* warning and no quota-exhaustion sleep.
C25_NoThrottlingWithoutBoth ==
    \A i \in 1..Len(log) :
        ~BothHeaders(i) =>
            /\ ~Did(log[i].data.effects, "cooldown")
            /\ ~Did(log[i].data.effects, "alert")
            /\ ~Did(log[i].data.effects, "quota")

\* C25: a response that lacks either header causes no cooldown and no warning;
\* the quota-exhaustion sleep is taken exactly when X-Rate-Limit-Remaining is
\* there with a value <= 0, whether X-Rate-Limit-Limit is there or not.
C25_CooldownNeedsBothQuotaOne ==
    \A i \in 1..Len(log) :
        LET headers == log[i].data.response.headers
        IN  /\ ~BothHeaders(i) =>
                  /\ ~Did(log[i].data.effects, "cooldown")
                  /\ ~Did(log[i].data.effects, "alert")
            /\ Did(log[i].data.effects, "quota")
                  <=> ("X-Rate-Limit-Remaining" \in DOMAIN headers
                       /\ headers["X-Rate-Limit-Remaining"] <= 0)

\* A response with X-Rate-Limit-Remaining = 0 and no X-Rate-Limit-Limit: the
\* run slept until the next day and took no cooldown.
C25_Witness ==
    \E i \in 1..Len(log) :
        /\ log[i].data.response.headers = ("X-Rate-Limit-Remaining" :> 0)
        /\ log[i].data.effects = <<"quota">>

\* C31: after every response that carries both rate-limit headers, whether it
\* passes validate_response or is Retriable or Fatal, the 2-second cooldown is
\* taken before _request returns or raises, so before any later request.
C31_CooldownAfterEveryClassified ==
    \A i \in 1..Len(log) :
        BothHeaders(i) => Did(log[i].data.effects, "cooldown")

\* How often the run slept for the reason what while it handled the response.
Sleeps(what) == Cardinality({k \in 1..Len(slept) : slept[k] = what})

\* C32: the streams purchase_orders_details, sales_orders_details,
\* item_details and journals take the pacing sleep of 1.01 s once for every
\* response, whether it turns out Success, Retriable or Fatal, after the quota
\* sleep if there is one and before the outcome (the cooldown of a response
\* that passed included); no other stream takes it, and none before the
\* response is classified.
C32_PacingDelay ==
    /\ verdict = "" => Sleeps("pacing") = 0
    /\ verdict # "" =>
          /\ Sleeps("pacing") =
                (IF name \in {"purchase_orders_details", "sales_orders_details",
                              "item_details", "journals"} THEN 1 ELSE 0)
          /\ \A k \in 1..Len(slept) :
                slept[k] = "pacing" =>
                    /\ \A j \in 1..(k - 1) : slept[j] = "quota"
                    /\ \A j \in (k + 1)..Len(slept) : slept[j] = "cooldown"

\* journals paced a response that was then Fatal, and one that was Retriable
\* after a quota sleep.
C32_Witness ==
    /\ name = "journals"
    /\ \/ verdict = "Fatal" /\ slept = <<"pacing">>
       \/ verdict = "Retriable" /\ slept = <<"quota", "pacing">>

\* C33: a response with status 200 and an empty body is skipped: it passes
\* validate_response, yields no record, raises nothing and is not retried.
C33_EmptyBodySkipped ==
    (response # <<>> /\ response.status_code = 200 /\ response.text = "empty"
     /\ verdict # "") =>
        /\ verdict = "Success"
        /\ pc = "Extracting"
        /\ failure = ""
        /\ parse_response(response) = <<<<>>>>

\* The run leaves sleep_until_next_day.
SleepEnds == pc = "QuotaSleeping" /\ pc' # "QuotaSleeping"

\* C40: when the provider answers every request, a stream invocation ends
\* after finitely many requests (at most 10 for each page): it reaches Done,
\* unless a request was answered Fatal or was answered Retriable 10 times,
\* which fails the run; and every quota-exhaustion sleep lasts more than 1
\* second and at most 86401 seconds and ends one second after the next
\* midnight.
C40_Termination ==
    /\ <>(\/ pc = "Done"
          \/ pc = "Failed" /\ failure = "FatalAPIError"
          \/ pc = "Failed" /\ failure = "RetriableAPIError" /\ tries = 10)
    /\ [](Len(sent) <= 10 * server.npages)
    /\ [][SleepEnds =>
            LET d == sleep_until_next_day(today)
            IN  /\ d.seconds > 1 \/ (d.seconds = 1 /\ d.microseconds > 0)
                /\ d.seconds < 86401 \/ (d.seconds = 86401 /\ d.microseconds = 0)
                /\ today' = [next_day(today) EXCEPT !.second = 1]]_vars

\* A run that began in the last microsecond of 2024-02-29 slept for 1.000001
\* s into March and is done with both its pages.
C40_Witness ==
    /\ pc = "Done"
    /\ server.npages = 2
    /\ today = Stamp(2024, 3, 1, 0, 0, 1, 0, <<>>)
    /\ Len(emitted) = 2

\* The query without its page parameter.
WithoutPage(query) == [k \in DOMAIN query \ {"page"} |-> query[k]]

\* C26: every request of one stream invocation carries the same query
\* parameters apart from page: the cursor value (last_modified_time, or
\* from_date and to_date for a report) resolved for page 1 goes out unchanged
\* with the later pages.
C26_SameParamsEveryPage ==
    \A i \in 1..Len(sent), j \in 1..Len(sent) : WithoutPage(sent[i]) = WithoutPage(sent[j])

----------------------------------------------------------------------------
(* Paginator and Stream Executor properties *)

PageContext == GetOr(response.json, "page_context", <<>>)

SaysMore == "has_more_page" \in DOMAIN PageContext /\ PageContext["has_more_page"]

\* C1: when the response's page_context says has_more_page with page = N,
\* get_next returns N+1 (and the paginator moves on to N+1); when
\* has_more_page is false or absent, or there is no page_context, get_next
\* returns no token and the invocation's pagination ends without an error.
C1_NextPageToken ==
    (response # <<>> /\ response.text = "json" /\ response.status_code < 400) =>
        /\ (SaysMore /\ "page" \in DOMAIN PageContext) =>
              /\ get_next(response.json) = <<PageContext["page"] + 1>>
              /\ pc = "Preparing" => paginator = [value |-> <<PageContext["page"] + 1>>,
                                                  finished |-> FALSE]
              /\ pc # "Done"
        /\ ~SaysMore =>
              /\ get_next(response.json) = None
              /\ pc \notin {"Extracting", "Validating", "QuotaSleeping", "Classifying"} =>
                    (pc = "Done" /\ paginator.finished /\ failure = "")

\* advance() took the paginator from page 3 to page 4.
C1_Witness ==
    /\ pc = "Preparing"
    /\ response # <<>>
    /\ SaysMore
    /\ PageContext = [has_more_page |-> TRUE, page |-> 3]
    /\ paginator = [value |-> <<4>>, finished |-> FALSE]

\* The records of pages 1..p of the provider, in page order.
RECURSIVE RecordsUpTo(_, _)
RecordsUpTo(srv, p) == IF p = 0 THEN <<>> ELSE RecordsUpTo(srv, p - 1) \o PageRecords(srv, p)

\* The pages requested so far.
PagesSent == {sent[i]["page"] : i \in 1..Len(sent)}

\* C2: the first request of an invocation with context {organization_id: X}
\* carries organization_id = X and page = 1; the records emitted are always
\* the provider's records in page order and in within-page order, each once;
\* every record of the pages before p is emitted before page p is requested,
\* no record of a page is emitted before that page is requested, and a
\* finished invocation has emitted every record of every page.
C2_PagesInOrder ==
    /\ sent # <<>> =>
          /\ "page" \in DOMAIN sent[1] /\ sent[1]["page"] = 1
          /\ sent[1]["organization_id"] = context[1]["organization_id"]
    /\ emitted = SubSeq(RecordsUpTo(server, server.npages), 1, Len(emitted))
    /\ \A i \in 1..Len(sent) :
          /\ "page" \in DOMAIN sent[i]
          /\ \A q \in 1..sent[i]["page"] : q \in {sent[j]["page"] : j \in 1..i}
    /\ \A p \in PagesSent :
          (\A q \in PagesSent : q <= p) =>
              /\ Len(emitted) >= (p - 1) * server.nrecs
              /\ Len(emitted) <= p * server.nrecs
    /\ pc = "Done" => emitted = RecordsUpTo(server, server.npages)

\* An invocation over two pages of two records each is done.
C2_Witness ==
    /\ pc = "Done"
    /\ server = [npages |-> 2, nrecs |-> 2]
    /\ emitted = <<[id |-> <<1, 1>>], [id |-> <<1, 2>>], [id |-> <<2, 1>>], [id |-> <<2, 2>>]>>
    /\ context[1]["organization_id"] = <<"2", "2", "2">>

\* The classification the rules give for a status and a body.
RuleVerdict(st, valid) ==
    CASE st \in ({429} \cup 500..599 \cup {400}) -> "Retriable"
      [] st \in (401..499) \ {429} -> "Fatal"
      [] st = 200 /\ ~valid -> "Retriable"
      [] OTHER -> "Success"

QuotaHeaderLow ==
    /\ response # <<>>
    /\ "X-Rate-Limit-Remaining" \in DOMAIN response.headers
    /\ response.headers["X-Rate-Limit-Remaining"] <= 0

\* C3: without a quota header <= 0, the classification is a function of the
\* status and of whether the body is valid JSON: the extra retriable statuses
\* (429), 500..599 and 400 are Retriable; the other statuses of 401..499 are
\* Fatal; 200 with an invalid body is Retriable; everything else, the non-200
\* statuses below 400 included, passes. Retriable ends in a retry or, on the
\* last attempt, in a RetriableAPIError; Fatal ends in a FatalAPIError.
C3_Classification ==
    (response # <<>> /\ verdict # "" /\ ~QuotaHeaderLow) =>
        /\ verdict = RuleVerdict(response.status_code, response.text = "json")
        /\ verdict = "Retriable" =>
              \/ pc = "Backoff" /\ failure = ""
              \/ pc = "Failed" /\ failure = "RetriableAPIError"
        /\ verdict = "Fatal" => (pc = "Failed" /\ failure = "FatalAPIError")
        /\ verdict = "Success" => failure \notin {"RetriableAPIError", "FatalAPIError"}

\* A 429 without a quota header was classified Retriable and is being retried.
C3_Witness ==
    /\ response # <<>>
    /\ response.status_code = 429
    /\ "X-Rate-Limit-Remaining" \notin DOMAIN response.headers
    /\ verdict = "Retriable"
    /\ pc = "Backoff"

\* C4: a request is attempted at most 10 times; the run fails with the
\* Retriable error only when the 10th attempt was Retriable too, and is
\* retried whenever an earlier one was; a Fatal response fails the run at once;
\* a failed run sends nothing more.
C4_RetryCap ==
    /\ [](/\ tries <= 10
          /\ failure = "RetriableAPIError" => (tries = 10 /\ pc = "Failed")
          /\ (verdict = "Retriable" /\ tries < 10) => (pc = "Backoff" /\ failure = "")
          /\ verdict = "Fatal" => (pc = "Failed" /\ failure = "FatalAPIError")
          /\ \A i \in 1..Len(sent) :
                Cardinality({j \in 1..Len(sent) : sent[j] = sent[i]}) <= 10)
    /\ [][pc = "Failed" => (pc' = "Failed" /\ sent' = sent /\ emitted' = emitted)]_vars

\* The 10th attempt of a request answered 503 like the nine before it.
C4_Witness ==
    /\ pc = "Failed"
    /\ failure = "RetriableAPIError"
    /\ tries = 10
    /\ response.status_code = 503
    /\ Len(sent) = 10

====
